---- MODULE Spec2Model ----
(***************************************************************************)
(* TreeLine: the multi-spot tree structure (source/treestructure.py).      *)
(*                                                                         *)
(* A TreeStructure owns nodeDict (uId -> node), the top-level childList    *)
(* and, through the nodes, the child lists and the spot sets.  A spot is   *)
(* the pair (node, parent spot); it is written here as the path of nodes   *)
(* from a top-level node down to the spot's node, so that the parent spot  *)
(* is the path without its last element and a top-level spot (parent spot  *)
(* None) is a path of length one.                                          *)
(***************************************************************************)
EXTENDS Integers, Sequences, FiniteSets, TLC

\* ---- bounds of the model ----
MaxNodes == 3       \* node objects that ever exist
MaxMint == 2        \* ids uuid.uuid1() hands out in replaceDuplicateIds
MaxEdges == 4       \* entries of all child lists together
MaxIdEdges == 2     \* the same, where ids are replaced
MaxCloneEdges == 4  \* the same, where single nodes are attached and edited
MaxSrc == 2         \* top-level nodes of an inserted structure
MaxFields == 3      \* field names a type can use
MaxOrigFields == 2  \* fields a type has when the model starts
MaxTypes == 2       \* node format types
MaxFieldValue == 2  \* stored field values
MaxUndoLevels == 2  \* the UndoLevels option: records a list keeps
MaxRecords == 6     \* undo and redo records ever made
MaxDocValue == 2    \* contents the edited document can have
MaxPaths == 2       \* file paths the user can choose
MaxLoadNodes == 2   \* node entries of loaded data
MaxLoadIds == 3     \* ids that loaded data can name
MaxPieces == 4      \* pieces a parsed text line is put together from
MaxLines == 2       \* output lines of a format
MaxTextLen == 10    \* characters and markup strings of one output line
MaxFormatOps == 2   \* operations on one format
MaxOutputLines == 3 \* output lines that formatOutput renders
MaxTitleLen == 3    \* characters of a title
MaxSel == 2         \* selected spots or nodes of a command
MaxCommands == 1    \* undo records the commands of one behaviour make
MaxWindows == 2     \* windows of one control

\* ---- values ----
None == 0           \* Python's None: no parent, no entry in nodeDict
Self == -1          \* the structure itself, given as the parent of top-level nodes

Nodes == 1..MaxNodes
UIds == 1..(MaxNodes + MaxMint)
Values == 0..1
Positions == -1..MaxEdges

VARIABLES
    uId,            \* node.uId of every node object
    data,           \* node.data, one field
    childList,      \* node.childList of every node object
    spotRefs,       \* node.spotRefs of every node object
    structChildList,\* TreeStructure.childList: the top-level nodes
    nodeDict,       \* TreeStructure.nodeDict: uId -> node object, None when absent
    nextUid,        \* the next id uuid.uuid1() returns
    purged,         \* ids that deleteNodeSpot has removed from nodeDict
    last            \* the operation that led to this state, with its arguments

vars == <<uId, data, childList, spotRefs, structChildList, nodeDict, nextUid,
          purged, last>>

vars_but_last == <<uId, data, childList, spotRefs, structChildList, nodeDict,
                   nextUid, purged>>

\* ---- node types, field data and the config dialog ----
FieldNames == 1..MaxFields
TypeNames == 1..MaxTypes
FieldValues == 1..MaxFieldValue

VARIABLES
    dataDict,        \* node.data of every node object: field name -> value, None when absent
    formatRef,       \* node.formatRef.name of every node object
    typeFieldNames,  \* the field names of every type of treeFormats
    fieldRenameDict  \* configDialogFormats.fieldRenameDict: per type, the (old, new) items in order

renameVars == <<dataDict, formatRef, typeFieldNames, fieldRenameDict>>

\* ---- the undo and redo lists of a document ----
VARIABLES
    doc,             \* the content the undo records restore
    undoList,        \* structure.undoList, newest record last
    redoList,        \* structure.redoList, newest record last
    nextRec,         \* the number of the next record made
    applied          \* the numbers of the records applied so far

undoVars == <<doc, undoList, redoList, nextRec, applied>>

\* ---- the file of a document ----
Paths == 1..MaxPaths

VARIABLES
    modified,        \* TreeLocalControl.modified
    fileSaveEnabled, \* allActions['FileSave'].isEnabled()
    imported,        \* TreeLocalControl.imported
    filePathObj,     \* TreeLocalControl.filePathObj, None when the document has no file
    disk             \* the files: <<path, is backup>> -> content, None when absent

saveVars == <<modified, fileSaveEnabled, imported, filePathObj, disk>>

\* TreeLocalControl.__init__ without a file
SaveIdle ==
    /\ modified = FALSE
    /\ fileSaveEnabled = FALSE
    /\ imported = FALSE
    /\ filePathObj = None
    /\ disk = [f \in Paths \X BOOLEAN |-> None]

\* ---- the clipboard ----
VARIABLES
    mimeData,        \* the data on the clipboard
    loadResult       \* what structFromMimeData returned last

loadVars == <<mimeData, loadResult>>

\* structFromMimeData returns None
NoStruct == [none |-> TRUE]

\* text on the clipboard that is not JSON
NotJson ==
    [kind |-> "invalid", keys |-> {}, formats |-> {}, nodes |-> <<>>,
     hasTopnodes |-> FALSE, topnodes |-> <<>>]

LoadIdle ==
    /\ mimeData = NotJson
    /\ loadResult = NoStruct

\* ---- a node format ----
VARIABLES
    parseText,       \* the text line parseLine is given
    parseResult,     \* the list parseLine returned
    format,          \* a NodeFormat: its output lines, flags and sibling markup
    outputArgs,      \* the output lines, node data and flags formatOutput works on
    outputResult,    \* the list formatOutput returned
    titleArgs,       \* the title line, title, node data and fields a title call works on
    titleResult      \* what extractTitleData or formatTitle returned

titleVars == <<titleArgs, titleResult>>

formatVars == <<parseText, parseResult, format, outputArgs, outputResult, titleVars>>

\* no title call has been made
NoTitleArgs ==
    [titleLine |-> <<>>, title |-> <<>>, data |-> <<>>, strictFields |-> {}]

NoTitleResult == [op |-> "none"]

TitleIdle ==
    /\ titleArgs = NoTitleArgs
    /\ titleResult = NoTitleResult

\* NodeFormat(name): no format data
DefaultFormat ==
    [titleLine |-> <<>>, outputLines |-> <<<<>>>>, origOutputLines |-> <<>>,
     useBullets |-> FALSE, useTables |-> FALSE,
     siblingPrefix |-> <<>>, siblingSuffix |-> <<>>]

\* formatOutput of a format without output lines
NoOutputArgs ==
    [outputLines |-> <<>>, data |-> <<>>, plainText |-> FALSE,
     keepBlanks |-> FALSE, formatHtml |-> FALSE]

FormatIdle ==
    /\ parseText = <<>>
    /\ parseResult = <<>>
    /\ format = DefaultFormat
    /\ outputArgs = NoOutputArgs
    /\ outputResult = <<>>
    /\ TitleIdle

\* the variables the tree structure operations leave alone
others == <<renameVars, undoVars, saveVars, loadVars, formatVars>>

\* TreeLocalControl.__init__: two empty lists, each the other's altListRef
UndoIdle ==
    /\ doc = 0
    /\ undoList = <<>>
    /\ redoList = <<>>
    /\ nextRec = 1
    /\ applied = {}

\* node.formatRef.name of the nodes when the model starts
FormatOf(n) == IF n = 2 THEN 2 ELSE 1

\* no config dialog is open and the nodes hold no field data
RenameIdle ==
    /\ dataDict = [n \in Nodes |-> [f \in FieldNames |-> None]]
    /\ formatRef = [n \in Nodes |-> FormatOf(n)]
    /\ typeFieldNames = [t \in TypeNames |-> 1..MaxOrigFields]
    /\ fieldRenameDict = [t \in TypeNames |-> <<>>]

OthersIdle == RenameIdle /\ UndoIdle /\ SaveIdle /\ LoadIdle /\ FormatIdle

\* ---- sequences as Python lists ----
Last(s) == s[Len(s)]

ParentSpot(s) == SubSeq(s, 1, Len(s) - 1)

Range(s) == {s[i] : i \in 1..Len(s)}

Count(s, x) == Cardinality({i \in 1..Len(s) : s[i] = x})

IndexOf(s, x) == CHOOSE i \in 1..Len(s) : s[i] = x /\ \A j \in 1..(i - 1) : s[j] # x

\* list.remove(x): the first occurrence goes
ListRemove(s, x) ==
    LET i == IndexOf(s, x) IN SubSeq(s, 1, i - 1) \o SubSeq(s, i + 1, Len(s))

\* list.insert(p, x) for p >= 0: before index p, at the end when p > len
ListInsert(s, p, x) ==
    LET q == IF p > Len(s) THEN Len(s) ELSE p
    IN SubSeq(s, 1, q) \o <<x>> \o SubSeq(s, q + 1, Len(s))

\* ---- TreeNode: descendantGen, addSpotRef, removeInvalidSpotRefs ----
RECURSIVE DescendantGen(_, _), DescendantsOfList(_, _)
DescendantGen(cl, n) == <<n>> \o DescendantsOfList(cl, cl[n])

DescendantsOfList(cl, s) ==
    IF s = <<>> THEN <<>>
    ELSE DescendantGen(cl, Head(s)) \o DescendantsOfList(cl, Tail(s))

RECURSIVE AddSpotRef(_, _, _, _), AddSpotRefChildren(_, _, _, _)
AddSpotRef(sr, cl, n, parentNode) ==
    LET origParentSpots == {ParentSpot(s) : s \in sr[n]}
        new == IF parentNode = None
               THEN IF <<>> \in origParentSpots THEN {} ELSE {<<n>>}
               ELSE {Append(ps, n) :
                        ps \in {p \in sr[parentNode] : p \notin origParentSpots}}
        sr1 == [sr EXCEPT ![n] = @ \cup new]
    IN IF new # {} THEN AddSpotRefChildren(sr1, cl, n, cl[n]) ELSE sr

AddSpotRefChildren(sr, cl, n, s) ==
    IF s = <<>> THEN sr
    ELSE AddSpotRefChildren(AddSpotRef(sr, cl, Head(s), n), cl, n, Tail(s))

\* a spot is still good when its parent still lists the node and still has
\* the parent spot
GoodSpot(sr, cl, top, s) ==
    LET n == Last(s) IN
    IF Len(s) = 1 THEN n \in Range(top)
    ELSE LET p == s[Len(s) - 1] IN
         n \in Range(cl[p]) /\ ParentSpot(s) \in sr[p]

RemoveInvalidSpotRefs(sr, cl, top, n) ==
    [sr EXCEPT ![n] = {s \in @ : GoodSpot(sr, cl, top, s)}]

\* ---- TreeStructure ----
\* TreeStructure(addDefaults=True): one default node at the top level
Init ==
    \* the last node object is new, or was loaded from a copy of the default
    \* node on the clipboard and carries that node's uId
    /\ \E u \in {1, MaxNodes} : uId = [n \in Nodes |-> IF n = MaxNodes THEN u ELSE n]
    /\ data = [n \in Nodes |-> 0]
    /\ childList = [n \in Nodes |-> <<>>]
    /\ spotRefs = [n \in Nodes |-> IF n = 1 THEN {<<1>>} ELSE {}]
    /\ structChildList = <<1>>
    /\ nodeDict = [u \in UIds |-> IF u = 1 THEN 1 ELSE None]
    /\ nextUid = MaxNodes + 1
    /\ purged = {}
    /\ last = [op |-> "init", raised |-> FALSE, spot |-> <<>>]
    /\ OthersIdle

\* the keys of a nodeDict and the node objects it holds
DictKeys(nd) == {u \in UIds : nd[u] # None}

DictNodes(nd) == {nd[u] : u \in DictKeys(nd)}

\* TreeStructure(topNodes=..., addSpots=False): nodeDict of the new structure
RECURSIVE StructNodeDict(_, _, _)
StructNodeDict(nd, ids, gen) ==
    IF gen = <<>> THEN nd
    ELSE StructNodeDict([nd EXCEPT ![ids[Head(gen)]] = Head(gen)], ids, Tail(gen))

TopNodesStruct(cl, ids, topNodes) ==
    [nodeDict |-> StructNodeDict([u \in UIds |-> None], ids,
                                 DescendantsOfList(cl, topNodes)),
     childList |-> topNodes]

RemoveNodeDictRef(nd, ids, node) == [nd EXCEPT ![ids[node]] = None]

\* for node in treeStruct.nodeDict.values(): self.nodeDict[node.uId] = node
MergeNodeDict(nd, srcDict, ids) ==
    [u \in UIds |-> IF \E k \in UIds : srcDict[k] # None /\ ids[srcDict[k]] = u
                    THEN srcDict[CHOOSE k \in UIds :
                                    srcDict[k] # None /\ ids[srcDict[k]] = u]
                    ELSE nd[u]]

\* one turn of the loop over treeStruct.childList that sets parent to None
\* whatever the parent is
AddStepSpotAtTop(st, node) ==
    LET list == IF st.parent = Self THEN st.top ELSE st.cl[st.parent]
        list1 == IF st.position >= 0 THEN ListInsert(list, st.position, node)
                 ELSE Append(list, node)
        st1 == IF st.parent = Self THEN [st EXCEPT !.top = list1]
               ELSE [st EXCEPT !.cl[st.parent] = list1]
        st2 == [st1 EXCEPT !.position = IF @ >= 0 THEN @ + 1 ELSE @,
                           !.parent = None]
    IN [st2 EXCEPT !.sr = AddSpotRef(st2.sr, st2.cl, node, st2.parent)]

\* one turn of the loop over treeStruct.childList;
\* st = [cl, top, sr, raised, parent, position], st.parent is not None
AddStep(st, node) ==
    LET list == IF st.parent = Self THEN st.top ELSE st.cl[st.parent]
        list1 == IF st.position >= 0 THEN ListInsert(list, st.position, node)
                 ELSE Append(list, node)
        st1 == IF st.parent = Self THEN [st EXCEPT !.top = list1]
               ELSE [st EXCEPT !.cl[st.parent] = list1]
        st2 == [st1 EXCEPT !.position = IF @ >= 0 THEN @ + 1 ELSE @,
                           !.parent = IF @ = Self THEN None ELSE @]
    IN [st2 EXCEPT !.sr = AddSpotRef(st2.sr, st2.cl, node, st2.parent)]

RECURSIVE AddLoop(_, _)
AddLoop(st, src) ==
    IF src = <<>> THEN st
    ELSE IF st.parent = None
    THEN [st EXCEPT !.raised = TRUE]   \* None has no childList: AttributeError
    ELSE AddLoop(AddStep(st, Head(src)), Tail(src))

AddNodesFromStruct(treeStruct, parent, position) ==
    LET st == AddLoop([cl |-> childList, top |-> structChildList,
                       sr |-> spotRefs, raised |-> FALSE,
                       parent |-> parent, position |-> position],
                      treeStruct.childList)
    IN [nd |-> MergeNodeDict(nodeDict, treeStruct.nodeDict, uId),
        cl |-> st.cl, top |-> st.top, sr |-> st.sr, raised |-> st.raised]

\* list.remove as a bug would have it: every occurrence goes
ListRemoveAll(s, x) == SelectSeq(s, LAMBDA y : y # x)

\* parentNode.childList.remove(spot.nodeRef)
ChildListRemove(s, x) == ListRemove(s, x)

\* the test that purges a node
PurgeTest(spots) == Cardinality(spots) <= 1

\* the loop over spot.nodeRef.descendantGen(); st = [nd, sr]
RECURSIVE DeleteLoop(_, _, _, _)
DeleteLoop(st, gen, cl, top) ==
    IF gen = <<>> THEN st
    ELSE
        LET node == Head(gen)
            st1 == IF PurgeTest(st.sr[node])
                   THEN [nd |-> RemoveNodeDictRef(st.nd, uId, node),
                         sr |-> [st.sr EXCEPT ![node] = {}]]
                   ELSE [st EXCEPT !.sr = RemoveInvalidSpotRefs(st.sr, cl, top, node)]
        IN DeleteLoop(st1, Tail(gen), cl, top)

DeleteNodeSpot(spot) ==
    LET node == Last(spot)
        parentNode == IF Len(spot) > 1 THEN spot[Len(spot) - 1] ELSE Self
        cl == IF parentNode = Self THEN childList
              ELSE [childList EXCEPT ![parentNode] = ChildListRemove(@, node)]
        top == IF parentNode = Self THEN ChildListRemove(structChildList, node)
               ELSE structChildList
        st == DeleteLoop([nd |-> nodeDict, sr |-> spotRefs],
                         DescendantGen(cl, node), cl, top)
    IN [nd |-> st.nd, cl |-> cl, top |-> top, sr |-> st.sr]

\* an id generator that hands out the ids of the first nodes again
Uuid1Reused(next) == next - MaxNodes

\* uuid.uuid1().hex: an id never handed out before
Uuid1(next) == next

\* the body of the loop without the del of the old key
ReplaceStepKeepsOldKey(st, node, duplicateDict) ==
    IF st.ids[node] \in duplicateDict
    THEN LET new == Uuid1(st.next) IN
         [nd |-> [st.nd EXCEPT ![new] = node],
          ids |-> [st.ids EXCEPT ![node] = new],
          next |-> st.next + 1]
    ELSE st

\* the body of the loop over list(self.nodeDict.values()); st = [nd, ids, next]
ReplaceStep(st, node, duplicateDict) ==
    IF st.ids[node] \in duplicateDict
    THEN LET new == Uuid1(st.next) IN
         [nd |-> [st.nd EXCEPT ![st.ids[node]] = None, ![new] = node],
          ids |-> [st.ids EXCEPT ![node] = new],
          next |-> st.next + 1]
    ELSE st

RECURSIVE ReplaceLoop(_, _, _)
ReplaceLoop(st, nodes, duplicateDict) ==
    IF nodes = <<>> THEN st
    ELSE ReplaceLoop(ReplaceStep(st, Head(nodes), duplicateDict), Tail(nodes),
                     duplicateDict)

\* list(self.nodeDict.values())
RECURSIVE DictValues(_, _)
DictValues(nd, u) ==
    IF u > MaxNodes + MaxMint THEN <<>>
    ELSE (IF nd[u] # None THEN <<nd[u]>> ELSE <<>>) \o DictValues(nd, u + 1)

ReplaceDuplicateIds(duplicateDict) ==
    ReplaceLoop([nd |-> nodeDict, ids |-> uId, next |-> nextUid],
                DictValues(nodeDict, 1), duplicateDict)

\* ---- the spots a user can select: those the tree view shows ----
RECURSIVE ShownSpots(_, _, _)
ShownSpots(cl, top, parentSpot) ==
    LET kids == IF parentSpot = <<>> THEN top ELSE cl[Last(parentSpot)]
    IN UNION {{Append(parentSpot, c)} \cup ShownSpots(cl, top, Append(parentSpot, c)) :
                 c \in Range(kids)}

AllSpots == ShownSpots(childList, structChildList, <<>>)

\* TreeSpot.row(): the place of the spot's node in its parent's child list
SpotRow(cl, top, spot) ==
    IndexOf(IF Len(spot) > 1 THEN cl[spot[Len(spot) - 1]] ELSE top, Last(spot))

Reachable == Range(DescendantsOfList(childList, structChildList))

Descendants(n) == Range(DescendantGen(childList, n))

TotalEdges ==
    LET RECURSIVE Sum(_)
        Sum(n) == IF n = 0 THEN 0 ELSE Len(childList[n]) + Sum(n - 1)
    IN Len(structChildList) + Sum(MaxNodes)

SrcLists == UNION {[1..k -> Nodes] : k \in 1..MaxSrc}

SingleLists == [1..1 -> Nodes]

ParentList(cl, top, parent) == IF parent = Self THEN top ELSE cl[parent]

\* ---- actions ----
\* what the callers of addNodesFromStruct hand over: a parent of this
\* structure, a position in its child list, and nodes that have not the parent
\* among their descendants
InsertOK(topNodes, parent, position) ==
    /\ parent \in {Self} \cup DictNodes(nodeDict)
    /\ position <= Len(ParentList(childList, structChildList, parent))
    /\ parent \notin Range(DescendantsOfList(childList, topNodes))

InsertWith(srcLists, positions, maxEdges) ==
    \E topNodes \in srcLists, parent \in {Self} \cup Nodes, position \in positions :
        /\ InsertOK(topNodes, parent, position)
        /\ TotalEdges + Len(topNodes) <= maxEdges
        /\ LET r == AddNodesFromStruct(TopNodesStruct(childList, uId, topNodes),
                                       parent, position)
           IN /\ nodeDict' = r.nd
              /\ childList' = r.cl
              /\ structChildList' = r.top
              /\ spotRefs' = r.sr
              /\ last' = [op |-> "insert", raised |-> r.raised, spot |-> <<>>]
        /\ UNCHANGED <<uId, data, nextUid, purged>>
        /\ UNCHANGED others

Insert == InsertWith(SrcLists, Positions, MaxEdges)

InsertFew == InsertWith(SrcLists, Positions, MaxIdEdges)

Attach == InsertWith(SingleLists, {-1}, MaxCloneEdges)

\* a spot of the tree view that its node holds
Deletable(spot) ==
    /\ spot \in AllSpots
    /\ spot \in spotRefs[Last(spot)]

Delete ==
    \E spot \in AllSpots :
        /\ Deletable(spot)
        /\ LET r == DeleteNodeSpot(spot)
           IN /\ nodeDict' = r.nd
              /\ childList' = r.cl
              /\ structChildList' = r.top
              /\ spotRefs' = r.sr
              /\ purged' = purged \cup (DictKeys(nodeDict) \ DictKeys(r.nd))
              /\ last' = [op |-> "delete", raised |-> FALSE, spot |-> spot]
        /\ UNCHANGED <<uId, data, nextUid>>
        /\ UNCHANGED others

\* the dicts whose keys replaceDuplicateIds is given: ids handed out so far
ReplaceOK(duplicateDict) ==
    /\ duplicateDict # {}
    /\ nextUid + Cardinality(duplicateDict \cap DictKeys(nodeDict)) - 1
           <= MaxNodes + MaxMint

Replace ==
    \E duplicateDict \in SUBSET (1..(nextUid - 1)) :
        /\ ReplaceOK(duplicateDict)
        /\ LET r == ReplaceDuplicateIds(duplicateDict)
           IN /\ nodeDict' = r.nd
              /\ uId' = r.ids
              /\ nextUid' = r.next
              /\ last' = [op |-> "replace", raised |-> FALSE, spot |-> <<>>]
        /\ UNCHANGED <<data, childList, spotRefs, structChildList, purged>>
        /\ UNCHANGED others

\* a field of a node that is shown at several spots is edited
EditCloned ==
    \E n \in DictNodes(nodeDict), v \in Values :
        /\ Cardinality(spotRefs[n]) > 1
        /\ data[n] # v
        /\ data' = [data EXCEPT ![n] = v]
        /\ last' = [op |-> "edit", raised |-> FALSE, spot |-> <<>>]
        /\ UNCHANGED <<uId, childList, spotRefs, structChildList, nodeDict,
                       nextUid, purged>>
        /\ UNCHANGED others

\* the value of the field as rendered through a spot
SpotValue(spot) == data[Last(spot)]

\* inserting and deleting
Next == Insert \/ Delete

Spec == Init /\ [][Next]_vars

\* inserting, deleting and replacing ids
NextIds == InsertFew \/ Delete \/ Replace

SpecIds == Init /\ [][NextIds]_vars

\* attaching single nodes, deleting and editing; every node object is new
NextClone == Attach \/ Delete \/ EditCloned

InitClone == Init /\ uId[MaxNodes] = MaxNodes

SpecClone == InitClone /\ [][NextClone]_vars

TypeOK ==
    /\ uId \in [Nodes -> UIds]
    /\ nodeDict \in [UIds -> Nodes \cup {None}]
    /\ \A n \in Nodes : childList[n] \in Seq(Nodes)

\* ---- the structure invariants the specification states ----
NodeDictReachableWithSpot ==
    \A u \in DictKeys(nodeDict) :
        nodeDict[u] \in Reachable /\ spotRefs[nodeDict[u]] # {}

Children ==
    Range(structChildList) \cup UNION {Range(childList[n]) : n \in DictNodes(nodeDict)}

NoDanglingChild ==
    \A n \in Children : nodeDict[uId[n]] = n /\ spotRefs[n] # {}

\* the step is deleteNodeSpot(spot)
DeletedBy(spot) == last'.op = "delete" /\ last'.spot = spot

ParentOf(spot) == IF Len(spot) > 1 THEN spot[Len(spot) - 1] ELSE Self

\* C1: every id in nodeDict is reachable from the top-level child list and has
\* at least one spot; stated for the step that has to keep it: a
\* deleteNodeSpot from a state where it holds leads to a state where it holds.
C1_DeleteKeepsNodeDictReachable ==
    [][(last'.op = "delete" /\ NodeDictReachableWithSpot)
           => NodeDictReachableWithSpot']_vars

\* C2: every node in the top-level child list or in the child list of a node
\* of nodeDict is in nodeDict and has a spot; stated for the step that has to
\* keep it: a deleteNodeSpot from a state where it holds leads to a state where
\* it holds.
C2_DeleteKeepsChildrenInNodeDict ==
    [][(last'.op = "delete" /\ NoDanglingChild) => NoDanglingChild']_vars

\* C3: deleteNodeSpot on the only spot of a node removes the node's id from
\* nodeDict, removes every descendant that is no longer reachable, and keeps
\* in nodeDict every descendant that is still reachable.
C3_DeleteOnlySpotPurgesUnreachableOnly ==
    [][\A spot \in AllSpots :
          (DeletedBy(spot) /\ spotRefs[Last(spot)] = {spot}) =>
              /\ nodeDict'[uId[Last(spot)]] = None
              /\ \A d \in Descendants(Last(spot)) \ {Last(spot)} :
                    IF d \in Reachable'
                    THEN nodeDict[uId[d]] = d => nodeDict'[uId[d]] = d
                    ELSE nodeDict'[uId[d]] # d]_vars

\* C4: deleteNodeSpot on one of n > 1 spots of a node leaves the node with
\* n - 1 spots, and the node and its descendants stay in nodeDict with their
\* data.
C4_DeleteOneOfManyLeavesTheRest ==
    [][\A spot \in AllSpots :
          (DeletedBy(spot) /\ Cardinality(spotRefs[Last(spot)]) > 1) =>
              /\ Cardinality(spotRefs'[Last(spot)])
                     = Cardinality(spotRefs[Last(spot)]) - 1
              /\ \A d \in Descendants(Last(spot)) :
                    nodeDict[uId[d]] = d => nodeDict'[uId[d]] = d
              /\ data' = data]_vars

C6_DeleteRemovesTheOccurrenceAtTheSpot ==
    \A spot \in AllSpots :
        Deletable(spot) =>
            LET r == DeleteNodeSpot(spot)
                parent == ParentOf(spot)
                old == ParentList(childList, structChildList, parent)
                new == ParentList(r.cl, r.top, parent)
                row == SpotRow(childList, structChildList, spot)
            IN /\ old[row] = Last(spot)
               /\ Len(new) = Len(old) - 1
               /\ \A j \in 1..Len(new) : new[j] = IF j < row THEN old[j] ELSE old[j + 1]
               /\ \A n \in Nodes : n # parent => r.cl[n] = childList[n]
               /\ parent # Self => r.top = structChildList

\* a spot has been deleted whose node is listed once more under the same parent
C6_Witness ==
    /\ last.op = "delete"
    /\ Last(last.spot) \in
           Range(ParentList(childList, structChildList, ParentOf(last.spot)))

\* the list after k nodes are put in at position p, or appended
Spliced(old, topNodes, position) ==
    IF position >= 0
    THEN SubSeq(old, 1, position) \o topNodes \o SubSeq(old, position + 1, Len(old))
    ELSE old \o topNodes

\* C7: addNodesFromStruct puts the k top-level nodes of the source, in order,
\* at p..p+k-1 of the parent's child list, or appends them, for every parent
\* and the top level, and each of them gets a spot under that parent.
C7_InsertSplicesUnderEveryParent ==
    \A topNodes \in SrcLists, parent \in {Self} \cup Nodes, position \in Positions :
        InsertOK(topNodes, parent, position) =>
            LET r == AddNodesFromStruct(TopNodesStruct(childList, uId, topNodes),
                                        parent, position)
            IN /\ ~r.raised
               /\ ParentList(r.cl, r.top, parent)
                      = Spliced(ParentList(childList, structChildList, parent),
                                topNodes, position)
               /\ \A i \in 1..Len(topNodes) :
                      \E s \in r.sr[topNodes[i]] : ParentOf(s) = parent

\* the source holds an id that is a key of nodeDict for another node
Collides(topNodes) ==
    \E d \in Range(DescendantsOfList(childList, topNodes)) :
        nodeDict[uId[d]] \notin {None, d}

\* C8: addNodesFromStruct given a source with an id that nodeDict holds for
\* another node changes neither nodeDict nor any child list.
C8_CollisionAbortsTheMerge ==
    \A topNodes \in SrcLists, parent \in {Self} \cup Nodes, position \in Positions :
        (InsertOK(topNodes, parent, position) /\ Collides(topNodes)) =>
            LET r == AddNodesFromStruct(TopNodesStruct(childList, uId, topNodes),
                                        parent, position)
            IN /\ r.nd = nodeDict
               /\ r.cl = childList
               /\ r.top = structChildList

\* C9: after replaceDuplicateIds(duplicateDict) no key of nodeDict is a key of
\* duplicateDict, every node of nodeDict is keyed by its uId, nodeDict holds
\* the nodes it held, as many as before, nodes with other ids keep theirs, and
\* the step changes neither data nor child lists.
C9_ReplaceDuplicateIdsRekeys ==
    /\ [](\A duplicateDict \in SUBSET (1..(nextUid - 1)) :
             ReplaceOK(duplicateDict) =>
                 LET r == ReplaceDuplicateIds(duplicateDict)
                 IN /\ DictKeys(r.nd) \cap duplicateDict = {}
                    /\ \A u \in DictKeys(r.nd) : r.ids[r.nd[u]] = u
                    /\ DictNodes(r.nd) = DictNodes(nodeDict)
                    /\ Cardinality(DictKeys(r.nd)) = Cardinality(DictKeys(nodeDict))
                    /\ \A n \in Nodes : uId[n] \notin duplicateDict => r.ids[n] = uId[n])
    /\ [][last'.op = "replace" =>
             /\ data' = data
             /\ childList' = childList
             /\ structChildList' = structChildList
             /\ DictNodes(nodeDict') = DictNodes(nodeDict)]_vars

\* replaceDuplicateIds has given a node of nodeDict a new id
C9_Witness ==
    /\ last.op = "replace"
    /\ \E u \in DictKeys(nodeDict) : u > MaxNodes /\ uId[nodeDict[u]] = u

\* a node of nodeDict that has a spot is attached under a parent that does not
\* list it yet
CloneCase(node, parent) ==
    /\ node \in DictNodes(nodeDict)
    /\ spotRefs[node] # {}
    /\ InsertOK(<<node>>, parent, -1)
    /\ node \notin Range(ParentList(childList, structChildList, parent))

ParentSpots(sr, parent) == IF parent = Self THEN {<<>>} ELSE sr[parent]

StructFixed ==
    /\ uId = [n \in Nodes |-> n]
    /\ data = [n \in Nodes |-> 0]
    /\ childList = [n \in Nodes |-> <<>>]
    /\ spotRefs = [n \in Nodes |-> IF n <= 2 THEN {<<n>>} ELSE {}]
    /\ structChildList = <<1, 2>>
    /\ nodeDict = [u \in UIds |-> IF u <= 2 THEN u ELSE None]
    /\ nextUid = MaxNodes + 1
    /\ purged = {}

EmptyDict == [f \in FieldNames |-> None]

\* the name a field of the type has in the config dialog
FinalName(items, orig) ==
    IF \E i \in 1..Len(items) : items[i][1] = orig
    THEN items[CHOOSE i \in 1..Len(items) : items[i][1] = orig][2]
    ELSE orig

DialogFieldNames(t) ==
    {FinalName(fieldRenameDict[t], o) : o \in typeFieldNames[t]}

\* the name the field had when the dialog was opened
OrigName(t, name) ==
    CHOOSE o \in typeFieldNames[t] : FinalName(fieldRenameDict[t], o) = name

\* fieldRenameDict[origName] = newName on a dict that keeps insertion order
DictSet(items, key, value) ==
    IF \E i \in 1..Len(items) : items[i][1] = key
    THEN [i \in 1..Len(items) |->
             IF items[i][1] = key THEN <<key, value>> ELSE items[i]]
    ELSE Append(items, <<key, value>>)

\* a turn of the loop over the items that writes the node's data in place
RenameStepInPlace(st, item) ==
    IF st.data[item[1]] # None
    THEN [st EXCEPT !.data = [@ EXCEPT ![item[2]] = st.data[item[1]],
                                       ![item[1]] = None]]
    ELSE st

\* a turn of the loop over fieldRenameDict.items(); st = [data, tmpDataDict]
RenameStep(st, item) ==
    IF st.data[item[1]] # None
    THEN [data |-> [st.data EXCEPT ![item[1]] = None],
          tmpDataDict |-> [st.tmpDataDict EXCEPT ![item[2]] = st.data[item[1]]]]
    ELSE st

RECURSIVE RenameLoop(_, _)
RenameLoop(st, items) ==
    IF items = <<>> THEN st
    ELSE RenameLoop(RenameStep(st, Head(items)), Tail(items))

\* dict.update
DictUpdate(d, tmp) == [f \in FieldNames |-> IF tmp[f] # None THEN tmp[f] ELSE d[f]]

\* the renames of one node
RenameNodeData(d, items) ==
    LET st == RenameLoop([data |-> d, tmpDataDict |-> EmptyDict], items)
    IN DictUpdate(st.data, st.tmpDataDict)

\* the config dialog renames a field of a type
RenameField ==
    \E t \in TypeNames :
        \E name \in DialogFieldNames(t), newName \in FieldNames \ DialogFieldNames(t) :
            /\ fieldRenameDict' = [fieldRenameDict EXCEPT
                                      ![t] = DictSet(@, OrigName(t, name), newName)]
            /\ last' = [op |-> "rename"]
            /\ UNCHANGED <<dataDict, formatRef, typeFieldNames, vars_but_last, undoVars, saveVars, loadVars, formatVars>>

\* treeFormats.copySettings(configDialogFormats) and the loop over nodeDict
ConfigFormatsApplied ==
    /\ dataDict' = [n \in Nodes |->
                       IF n \in DictNodes(nodeDict)
                       THEN RenameNodeData(dataDict[n], fieldRenameDict[formatRef[n]])
                       ELSE dataDict[n]]
    /\ formatRef' = formatRef
    /\ typeFieldNames' = [t \in TypeNames |-> DialogFieldNames(t)]
    /\ fieldRenameDict' = [t \in TypeNames |-> <<>>]

\* applyConfigDialogFormats(addUndo=False)
ApplyConfigDialogFormats ==
    /\ \E t \in TypeNames : fieldRenameDict[t] # <<>>
    /\ ConfigFormatsApplied
    /\ last' = [op |-> "apply", renames |-> fieldRenameDict, before |-> dataDict]
    /\ UNCHANGED <<vars_but_last, undoVars, saveVars, loadVars, formatVars>>

InitRename ==
    /\ StructFixed
    /\ dataDict \in [Nodes -> [FieldNames -> {None} \cup FieldValues]]
    /\ \A n \in Nodes : n # 1 =>
           dataDict[n] = [f \in FieldNames |-> IF f \in FieldValues THEN f ELSE None]
    /\ formatRef = [n \in Nodes |-> FormatOf(n)]
    /\ typeFieldNames = [t \in TypeNames |-> 1..MaxOrigFields]
    /\ fieldRenameDict = [t \in TypeNames |-> <<>>]
    /\ last = [op |-> "init"]
    /\ UndoIdle
    /\ SaveIdle
    /\ LoadIdle
    /\ FormatIdle

NextRename == RenameField \/ ApplyConfigDialogFormats

SpecRename == InitRename /\ [][NextRename]_<<vars, others>>

\* C11: applyConfigDialogFormats moves, for every node of nodeDict whose type
\* has renamed fields, every stored value from the old to the new field name,
\* the value unchanged, leaves no value under an old name that is not also a
\* new name, and leaves the data of the other nodes of nodeDict as it was.
C11_RenameMovesStoredValues ==
    last.op = "apply" =>
        \A n \in DictNodes(nodeDict) :
            LET items == last.renames[FormatOf(n)] IN
            IF items = <<>> THEN dataDict[n] = last.before[n]
            ELSE \A i \in 1..Len(items) :
                    /\ last.before[n][items[i][1]] # None =>
                           dataDict[n][items[i][2]] = last.before[n][items[i][1]]
                    /\ (\A j \in 1..Len(items) : items[j][2] # items[i][1]) =>
                           dataDict[n][items[i][1]] = None

\* two fields of a type have exchanged names and a node of that type held two
\* different values under them
C11_Witness ==
    /\ last.op = "apply"
    /\ \E n \in DictNodes(nodeDict) :
          \E i, j \in 1..Len(last.renames[FormatOf(n)]) :
              LET items == last.renames[FormatOf(n)] IN
              /\ items[i][1] = items[j][2]
              /\ items[j][1] = items[i][2]
              /\ i # j
              /\ last.before[n][items[i][1]] # None
              /\ last.before[n][items[j][1]] # None
              /\ last.before[n][items[i][1]] # last.before[n][items[j][1]]

\* ---- editUndo and editRedo ----
DocValues == 0..MaxDocValue

\* del self[:-self.levels]: the list keeps its newest records
KeepLevels(list) ==
    IF Len(list) > MaxUndoLevels
    THEN SubSeq(list, Len(list) - MaxUndoLevels + 1, Len(list))
    ELSE list

\* UndoRedoList.addUndoObj
AddUndoObj(list, rec) == KeepLevels(Append(list, rec))

\* UndoRedoList.undo on the list named own, with the other list as altListRef:
\* the newest record is taken off, its inverse is added to the other list and
\* the record is applied; st = [doc, undoList, redoList, next, applied, raised]
UndoRedoListUndo(st, own) ==
    LET list == IF own = "undo" THEN st.undoList ELSE st.redoList
        alt == IF own = "undo" THEN st.redoList ELSE st.undoList
    IN IF list = <<>>
       THEN [st EXCEPT !.raised = TRUE]    \* pop from an empty list: IndexError
       ELSE LET item == Last(list)
                rest == SubSeq(list, 1, Len(list) - 1)
                inverse == [id |-> st.next, value |-> st.doc, inverseOf |-> item.id]
                alt1 == AddUndoObj(alt, inverse)
            IN [doc |-> item.value,
                undoList |-> IF own = "undo" THEN rest ELSE alt1,
                redoList |-> IF own = "undo" THEN alt1 ELSE rest,
                next |-> st.next + 1,
                applied |-> st.applied \cup {item.id},
                raised |-> FALSE]

ControlState ==
    [doc |-> doc, undoList |-> undoList, redoList |-> redoList,
     next |-> nextRec, applied |-> applied, raised |-> FALSE]

\* editUndo with the lists exchanged
EditUndoOnRedoList(st) == UndoRedoListUndo(st, "redo")

\* self.structure.undoList.undo()
EditUndo(st) == UndoRedoListUndo(st, "undo")

\* self.structure.redoList.undo()
EditRedo(st) == UndoRedoListUndo(st, "redo")

SetControlState(st) ==
    /\ doc' = st.doc
    /\ undoList' = st.undoList
    /\ redoList' = st.redoList
    /\ nextRec' = st.next
    /\ applied' = st.applied

\* an edit records the content it replaces and empties the redo list
EditDoc ==
    \E v \in DocValues :
        /\ v # doc
        /\ nextRec <= MaxRecords
        /\ doc' = v
        /\ undoList' = AddUndoObj(undoList, [id |-> nextRec, value |-> doc,
                                             inverseOf |-> None])
        /\ redoList' = <<>>
        /\ nextRec' = nextRec + 1
        /\ applied' = applied
        /\ last' = [op |-> "edit", raised |-> FALSE]
        /\ UNCHANGED <<vars_but_last, renameVars, saveVars, loadVars, formatVars>>

Undo ==
    /\ nextRec <= MaxRecords
    /\ LET st == EditUndo(ControlState)
       IN /\ SetControlState(st)
          /\ last' = [op |-> "undo", raised |-> st.raised]
    /\ UNCHANGED <<vars_but_last, renameVars, saveVars, loadVars, formatVars>>

Redo ==
    /\ nextRec <= MaxRecords
    /\ LET st == EditRedo(ControlState)
       IN /\ SetControlState(st)
          /\ last' = [op |-> "redo", raised |-> st.raised]
    /\ UNCHANGED <<vars_but_last, renameVars, saveVars, loadVars, formatVars>>

InitUndo ==
    /\ StructFixed
    /\ RenameIdle
    /\ UndoIdle
    /\ SaveIdle
    /\ LoadIdle
    /\ FormatIdle
    /\ last = [op |-> "init", raised |-> FALSE]

NextUndo == EditDoc \/ Undo \/ Redo

SpecUndo == InitUndo /\ [][NextUndo]_<<vars, others>>

\* the step took the newest record of list own, applied it and added its
\* inverse to list alt
Applies(own, ownNext, alt, altNext) ==
    /\ own # <<>>
    /\ ownNext = SubSeq(own, 1, Len(own) - 1)
    /\ doc' = Last(own).value
    /\ Last(own).id \notin applied
    /\ altNext # <<>>
    /\ Last(altNext).value = doc
    /\ Last(altNext).inverseOf = Last(own).id
    /\ SubSeq(altNext, 1, Len(altNext) - 1)
           = SubSeq(KeepLevels(Append(alt, Last(altNext))), 1, Len(altNext) - 1)

\* C12: editUndo applies the newest record of the undo list and adds its
\* inverse to the redo list, editRedo applies the newest record of the redo
\* list and adds its inverse to the undo list; no record is applied twice, and
\* a redo applies only the inverse of a record an undo has applied; nothing is
\* applied only when the list is empty.
C12_UndoRedoPairs ==
    [][/\ (last'.op = "undo" /\ ~last'.raised) =>
              Applies(undoList, undoList', redoList, redoList')
       /\ (last'.op = "redo" /\ ~last'.raised) =>
              /\ Applies(redoList, redoList', undoList, undoList')
              /\ Last(redoList).inverseOf \in applied
       /\ (last'.op \in {"undo", "redo"} /\ last'.raised) =>
              /\ UNCHANGED <<doc, undoList, redoList, applied>>
              /\ (IF last'.op = "undo" THEN undoList ELSE redoList) = <<>>]_<<vars, others>>

\* an edit has been undone and done again
C12_Witness ==
    /\ last.op = "redo"
    /\ ~last.raised
    /\ Cardinality(applied) >= 2
    /\ undoList # <<>>
    /\ Last(undoList).inverseOf \in applied

\* ---- fileSave and fileSaveAs ----
\* what a write that fails half way leaves in the file
Partial == MaxDocValue + 1

\* structure.fileData(): the content of the document
FileData == doc

\* what the write can do: succeed, fail on open, fail during json.dump
WriteResults == {"ok", "openFails", "dumpFails"}

\* setModified that leaves the FileSave action alone
SetModifiedFlagOnly(st, newModified) == [st EXCEPT !.modified = newModified]

\* setModified(modified); st = [modified, fileSaveEnabled, ...]
SetModified(st, newModified) ==
    IF newModified # st.modified
    THEN [st EXCEPT !.modified = newModified, !.fileSaveEnabled = newModified]
    ELSE st

\* the try block of fileSave; st = [modified, fileSaveEnabled, imported,
\* filePathObj, disk, failed]
WriteFile(st, backupFile, result) ==
    LET f == <<st.filePathObj, backupFile>> IN
    IF result = "ok"
    THEN IF backupFile
         THEN [st EXCEPT !.disk[f] = FileData]
         ELSE [SetModified([st EXCEPT !.disk[f] = FileData], FALSE)
                   EXCEPT !.imported = FALSE]
    ELSE [st EXCEPT !.disk[f] = IF result = "dumpFails" THEN Partial ELSE @,
                    !.failed = TRUE]

\* fileSaveAs without the lines that put the old values back
FileSaveAsNoRestore(st, newPath, result) ==
    LET st1 == [st EXCEPT !.modified = TRUE, !.imported = FALSE]
    IN IF newPath # None
       THEN WriteFile([st1 EXCEPT !.filePathObj = newPath], FALSE, result)
       ELSE st1

\* fileSaveAs that puts the flags back but not the path
FileSaveAsKeepsPath(st, newPath, result) ==
    LET st1 == [st EXCEPT !.modified = TRUE, !.imported = FALSE]
        st2 == IF newPath # None
               THEN WriteFile([st1 EXCEPT !.filePathObj = newPath], FALSE, result)
               ELSE st1
    IN IF newPath # None /\ ~st2.modified
       THEN st2
       ELSE [st2 EXCEPT !.modified = st.modified, !.imported = st.imported]

RECURSIVE FileSave(_, _, _, _)
\* fileSaveAs; newPath is what the file dialog returns, None when cancelled
FileSaveAs(st, newPath, result) ==
    LET st1 == [st EXCEPT !.modified = TRUE, !.imported = FALSE]
        st2 == FileSave([st1 EXCEPT !.filePathObj = newPath], FALSE, newPath, result)
        restored == [modified |-> st.modified, imported |-> st.imported,
                     filePathObj |-> st.filePathObj]
    IN IF newPath # None /\ ~st2.modified
       THEN st2
       ELSE LET st3 == IF newPath # None THEN st2 ELSE st1
            IN [st3 EXCEPT !.modified = restored.modified,
                           !.imported = restored.imported,
                           !.filePathObj = restored.filePathObj]

FileSave(st, backupFile, newPath, result) ==
    IF st.filePathObj = None \/ st.imported
    THEN FileSaveAs(st, newPath, result)
    ELSE WriteFile(st, backupFile, result)

SaveState ==
    [modified |-> modified, fileSaveEnabled |-> fileSaveEnabled,
     imported |-> imported, filePathObj |-> filePathObj,
     disk |-> disk, failed |-> FALSE]

SaveWith(newPaths) ==
    \E backupFile \in BOOLEAN, newPath \in newPaths, result \in WriteResults :
        LET st == FileSave(SaveState, backupFile, newPath, result)
        IN /\ modified' = st.modified
           /\ fileSaveEnabled' = st.fileSaveEnabled
           /\ imported' = st.imported
           /\ filePathObj' = st.filePathObj
           /\ disk' = st.disk
           /\ last' = [op |-> "save", failed |-> st.failed,
                       saveAs |-> (filePathObj = None \/ imported)]
           /\ UNCHANGED <<vars_but_last, renameVars, undoVars, loadVars, formatVars>>

Save == SaveWith(Paths \cup {None})

\* updateAll after an edit: setModified()
EditModifies ==
    \E v \in DocValues :
        /\ v # doc
        /\ doc' = v
        /\ modified' = SetModified(SaveState, TRUE).modified
        /\ fileSaveEnabled' = SetModified(SaveState, TRUE).fileSaveEnabled
        /\ last' = [op |-> "edit", failed |-> FALSE, saveAs |-> FALSE]
        /\ UNCHANGED <<undoList, redoList, nextRec, applied>>
        /\ UNCHANGED <<imported, filePathObj, disk>>
        /\ UNCHANGED <<vars_but_last, renameVars, loadVars, formatVars>>

\* a control made for a new document, for a file, or for an imported structure
InitSave ==
    /\ StructFixed
    /\ RenameIdle
    /\ UndoIdle
    /\ modified = FALSE
    /\ fileSaveEnabled = FALSE
    /\ imported \in BOOLEAN
    /\ filePathObj \in Paths \cup {None}
    /\ disk = [f \in Paths \X BOOLEAN |-> None]
    /\ LoadIdle
    /\ FormatIdle
    /\ last = [op |-> "init", failed |-> FALSE, saveAs |-> FALSE]

NextSave == Save \/ EditModifies

SpecSave == InitSave /\ [][NextSave]_<<vars, others>>

\* C13: a fileSave whose write fails leaves the structure, the modified flag,
\* the imported flag and the file path as they were.
C13_FailedSaveKeepsState ==
    [][(last'.op = "save" /\ last'.failed) =>
           /\ modified' = modified
           /\ filePathObj' = filePathObj
           /\ imported' = imported
           /\ doc' = doc
           /\ UNCHANGED vars_but_last
           /\ UNCHANGED renameVars]_<<vars, others>>

\* a modified document without a usable file has gone through fileSaveAs and
\* the write has failed
C13_Witness ==
    /\ last.op = "save"
    /\ last.failed
    /\ last.saveAs
    /\ modified
    /\ \E f \in Paths \X BOOLEAN : disk[f] = Partial

\* ---- structFromMimeData: a structure from clipboard data ----
LoadIds == 1..MaxLoadIds

LoadKeys == {"formats", "nodes", "properties"}

\* lists of at most n elements of S
SeqUpTo(S, n) == UNION {[1..k -> S] : k \in 0..n}

\* what json.loads is given: text that is no JSON, a JSON value that Python
\* takes as false ({}, [], null, 0, ""), another value that is no object, or
\* an object with some of the entries of a TreeLine file
MimeInputs ==
    {NotJson,
     [NotJson EXCEPT !.kind = "falsy"],
     [NotJson EXCEPT !.kind = "notDict"]}
    \cup
    [kind : {"dict"},
     keys : SUBSET LoadKeys,
     formats : SUBSET TypeNames,
     nodes : SeqUpTo([uid : 1..MaxLoadNodes, format : TypeNames], MaxLoadNodes),
     hasTopnodes : BOOLEAN,
     topnodes : SeqUpTo(LoadIds, 1)]

\* the loop over fileData['nodes']; st = [nodeDict, raised]
RECURSIVE LoadNodes(_, _, _)
LoadNodes(st, nodes, formats) ==
    IF nodes = <<>> \/ st.raised THEN st
    ELSE IF Head(nodes).format \notin formats
    THEN [st EXCEPT !.raised = TRUE]             \* treeFormats[...]: KeyError
    ELSE LoadNodes([st EXCEPT !.nodeDict[Head(nodes).uid] = Head(nodes).uid],
                   Tail(nodes), formats)

\* the loop over fileData['properties']['topnodes']; st = [childList, raised]
RECURSIVE LoadTopNodes(_, _, _)
LoadTopNodes(st, topnodes, nd) ==
    IF topnodes = <<>> \/ st.raised THEN st
    ELSE IF nd[Head(topnodes)] = None
    THEN [st EXCEPT !.raised = TRUE]             \* self.nodeDict[uId]: KeyError
    ELSE LoadTopNodes([st EXCEPT !.childList = Append(@, Head(topnodes))],
                      Tail(topnodes), nd)

\* TreeStructure(fileData, addSpots=False); raised stands for the KeyError or
\* TypeError that leaves __init__
StructFromFileData(fileData) ==
    LET empty == [raised |-> FALSE, nodeDict |-> [u \in LoadIds |-> None],
                  childList |-> <<>>]
    IN IF fileData.kind = "falsy" THEN empty        \* if fileData: is not taken
       ELSE IF fileData.kind = "notDict" \/ "formats" \notin fileData.keys
                 \/ "nodes" \notin fileData.keys
       THEN [empty EXCEPT !.raised = TRUE]
       ELSE LET n == LoadNodes([nodeDict |-> empty.nodeDict, raised |-> FALSE],
                               fileData.nodes, fileData.formats)
            IN IF n.raised \/ "properties" \notin fileData.keys
                  \/ ~fileData.hasTopnodes
               THEN [empty EXCEPT !.raised = TRUE, !.nodeDict = n.nodeDict]
               ELSE LET t == LoadTopNodes([childList |-> <<>>, raised |-> FALSE],
                                          fileData.topnodes, n.nodeDict)
                    IN [raised |-> t.raised, nodeDict |-> n.nodeDict,
                        childList |-> t.childList]

StructFromMimeData(jsonData) ==
    IF jsonData.kind = "invalid" THEN NoStruct        \* json.loads: ValueError
    ELSE LET r == StructFromFileData(jsonData)
         IN IF r.raised THEN NoStruct
            ELSE [none |-> FALSE, nodeDict |-> r.nodeDict, childList |-> r.childList]

Load ==
    /\ last.op # "load"
    /\ loadResult' = StructFromMimeData(mimeData)
    /\ mimeData' = mimeData
    /\ last' = [op |-> "load"]
    /\ UNCHANGED <<vars_but_last, renameVars, undoVars, saveVars, formatVars>>

\* any data may be on the clipboard
InitLoad ==
    /\ StructFixed
    /\ RenameIdle
    /\ UndoIdle
    /\ SaveIdle
    /\ mimeData \in MimeInputs
    /\ loadResult = NoStruct
    /\ FormatIdle
    /\ last = [op |-> "init"]

NextLoad == Load

SpecLoad == InitLoad /\ [][NextLoad]_<<vars, others>>

\* the data is malformed: no JSON, an entry missing, a node of an unknown
\* format, or a top node that is not among the nodes
Malformed(d) ==
    \/ d.kind # "dict"
    \/ d.keys # LoadKeys
    \/ ~d.hasTopnodes
    \/ \E i \in 1..Len(d.nodes) : d.nodes[i].format \notin d.formats
    \/ \E i \in 1..Len(d.topnodes) :
          \A j \in 1..Len(d.nodes) : d.nodes[j].uid # d.topnodes[i]

\* C14: structFromMimeData given malformed data returns None.
C14_MalformedDataGivesNone ==
    (last.op = "load" /\ Malformed(mimeData)) => loadResult = NoStruct

\* ---- fileData: the structure as it is written to a file ----
\* sorted(..., key=itemgetter('uid')) of a list of uids
RECURSIVE SortedByUid(_)
SortedByUid(s) ==
    IF s = <<>> THEN <<>>
    ELSE LET least == CHOOSE i \in 1..Len(s) :
                          /\ \A j \in 1..Len(s) : s[i] <= s[j]
                          /\ \A j \in 1..(i - 1) : s[j] # s[i]
         IN <<s[least]>>
            \o SortedByUid([j \in 1..(Len(s) - 1) |-> IF j < least THEN s[j] ELSE s[j + 1]])

\* [... for node in nodeDict.values()] of the 'uid' entries
RECURSIVE DictValueUids(_, _, _)
DictValueUids(nd, ids, u) ==
    IF u \notin UIds THEN <<>>
    ELSE (IF nd[u] = None THEN <<>> ELSE <<ids[nd[u]]>>) \o DictValueUids(nd, ids, u + 1)

\* the 'uid' entries of fileData()['nodes']
FileDataNodes(nd, ids) == SortedByUid(DictValueUids(nd, ids, 1))

\* fileData()['properties']['topnodes']
FileDataTopNodes(top, ids) == [i \in 1..Len(top) |-> ids[top[i]]]

\* 'nodes' holds the nodes of nodeDict, one entry per id in rising order, and
\* 'topnodes' the ids of the top-level list in its order
FileDataListsNodeDict ==
    LET nodes == FileDataNodes(nodeDict, uId)
        topnodes == FileDataTopNodes(structChildList, uId)
    IN /\ Len(nodes) = Cardinality(DictKeys(nodeDict))
       /\ Range(nodes) = DictKeys(nodeDict)
       /\ \A i \in 1..(Len(nodes) - 1) : nodes[i] < nodes[i + 1]
       /\ Len(topnodes) = Len(structChildList)
       /\ \A i \in 1..Len(topnodes) : topnodes[i] = uId[structChildList[i]]

\* C15: fileData() lists under 'nodes' the nodes of nodeDict, one entry per
\* id, sorted by uid, and under 'topnodes' the ids of the top-level list in
\* order; after deleteNodeSpot on the only spot of a node the node's id is in
\* neither list.
C15_FileDataWithoutDeletedNode ==
    [][/\ FileDataListsNodeDict'
       /\ \A spot \in AllSpots :
             (DeletedBy(spot) /\ spotRefs[Last(spot)] = {spot}) =>
                 /\ uId[Last(spot)] \notin Range(FileDataNodes(nodeDict', uId'))
                 /\ uId[Last(spot)] \notin Range(FileDataTopNodes(structChildList', uId'))]_vars

\* ---- NodeFormat: parsing format lines ----
\* a text is a sequence of characters; <li> and the like stand for the markup
\* strings, which hold no character the parsing looks at
WhiteSpace == {" ", "\t", "\n"}

\* the characters of [\w_\-.] that the model uses
NameChars == {"F", "G", "H"}

\* the single-character modifiers of _fieldSplitRe
Modifiers == {"?", "!", "&", "#"}

\* the names in fieldDict
FieldDictNames == {<<"F">>, <<"G">>}

\* ' '.join(text.split())
RECURSIVE JoinSplit(_, _, _)
JoinSplit(text, out, pending) ==
    IF text = <<>> THEN out
    ELSE IF Head(text) \in WhiteSpace THEN JoinSplit(Tail(text), out, out # <<>>)
    ELSE JoinSplit(Tail(text),
                   out \o (IF pending THEN <<" ">> ELSE <<>>) \o <<Head(text)>>,
                   FALSE)

\* the number of characters from position i on that are in S
RECURSIVE RunLen(_, _, _)
RunLen(text, i, S) ==
    IF i > Len(text) \/ text[i] \notin S THEN 0 ELSE 1 + RunLen(text, i + 1, S)

\* the length of the match of _fieldSplitRe at position i, 0 if there is none:
\* {* , asterisks or one modifier, name characters, *}
\* the same, given the lengths of modifier and name: the match ends with *}
MatchEnd(text, i, mod, name) ==
    IF /\ name > 0
       /\ i + 3 + mod + name <= Len(text)
       /\ text[i + 2 + mod + name] = "*"
       /\ text[i + 3 + mod + name] = "}"
    THEN 4 + mod + name
    ELSE 0

\* the same, given the length of the modifier
MatchName(text, i, mod) ==
    MatchEnd(text, i, mod, RunLen(text, i + 2 + mod, NameChars))

\* the length of the modifier: the asterisks, or one modifier character
ModLen(text, i, stars) ==
    IF stars > 0 THEN stars
    ELSE IF i + 2 <= Len(text) /\ text[i + 2] \in Modifiers THEN 1
    ELSE 0

MatchLen(text, i) ==
    IF ~(i + 1 <= Len(text) /\ text[i] = "{" /\ text[i + 1] = "*") THEN 0
    ELSE MatchName(text, i, ModLen(text, i, RunLen(text, i + 2, {"*"})))

\* _fieldSplitRe.split(text) without the empty parts; lit is the text since
\* the last match
RECURSIVE FieldSplit(_, _, _)
\* the split at position i, where the match has the length m
SplitAt(text, i, lit, m) ==
    IF m = 0 THEN FieldSplit(text, i + 1, Append(lit, text[i]))
    ELSE (IF lit = <<>> THEN <<>> ELSE <<lit>>)
         \o <<SubSeq(text, i, i + m - 1)>>
         \o FieldSplit(text, i + m, <<>>)

FieldSplit(text, i, lit) ==
    IF i > Len(text) THEN (IF lit = <<>> THEN <<>> ELSE <<lit>>)
    ELSE SplitAt(text, i, lit, MatchLen(text, i))

\* a part of a line: a field of fieldDict or plain text
FieldPart(name) == [isField |-> TRUE, s |-> name]

TextPart(text) == [isField |-> FALSE, s |-> text]

\* parseField, given the name of the match without modifier ("" if none)
FieldOrText(text, fieldName) ==
    IF fieldName \in FieldDictNames THEN FieldPart(fieldName) ELSE TextPart(text)

\* a parseField that takes the field of the name whatever the modifier is
ParseFieldWithModifier(text) ==
    FieldOrText(text,
                IF MatchLen(text, 1) > 0
                THEN SelectSeq(text, LAMBDA c : c \in NameChars)
                ELSE <<>>)

ParseField(text) ==
    FieldOrText(text,
                IF MatchLen(text, 1) > 0 /\ text[3] \in NameChars
                THEN SubSeq(text, 3, 2 + RunLen(text, 3, NameChars))
                ELSE <<>>)

ParseFields(segments) == [k \in 1..Len(segments) |-> ParseField(segments[k])]

ParseLine(text) == ParseFields(FieldSplit(JoinSplit(text, <<>>, FALSE), 1, <<>>))

\* field.sepName()
SepName(name) == <<"{", "*">> \o name \o <<"*", "}">>

\* ' '.join of the parts instead of ''.join
RECURSIVE GetLineSpaced(_)
GetLineSpaced(line) ==
    IF line = <<>> THEN <<>>
    ELSE (IF Head(line).isField THEN SepName(Head(line).s) ELSE Head(line).s)
         \o (IF Len(line) > 1 THEN <<" ">> ELSE <<>>) \o GetLineSpaced(Tail(line))

\* ''.join([part.sepName() if hasattr(part, 'sepName') else part ...])
RECURSIVE GetLine(_)
GetLine(line) ==
    IF line = <<>> THEN <<>>
    ELSE (IF Head(line).isField THEN SepName(Head(line).s) ELSE Head(line).s)
         \o GetLine(Tail(line))

\* what a text line is put together from
ParsePieces ==
    {<<"{", "*", "F", "*", "}">>, <<"{", "*", "H", "*", "}">>,
     <<"{", "*", "!", "F", "*", "}">>, <<"{", "*", "*", "F", "*", "}">>,
     <<"{", "*", "?", "F", "*", "}">>, <<"{", "*", "&", "G", "*", "}">>,
     <<"{", "*", "#", "F", "*", "}">>,
     <<" ">>, <<"\t">>, <<":">>, <<"F">>, <<"{">>, <<"*">>, <<"}">>,
     <<"{", "*">>, <<"*", "}">>}

RECURSIVE Concat(_)
Concat(pieces) == IF pieces = <<>> THEN <<>> ELSE Head(pieces) \o Concat(Tail(pieces))

ParseInputs == {Concat(ps) : ps \in SeqUpTo(ParsePieces, MaxPieces)}

\* parseLine(text)
DoParseLine ==
    /\ last.op = "init"
    /\ parseResult' = ParseLine(parseText)
    /\ parseText' = parseText
    /\ UNCHANGED <<format, outputArgs, outputResult, titleVars>>
    /\ last' = [op |-> "parseLine"]
    /\ UNCHANGED <<vars_but_last, renameVars, undoVars, saveVars, loadVars>>

\* the line is turned into text again, as getTitleLine does
DoGetLine ==
    /\ last.op = "parseLine"
    /\ parseText' = GetLine(parseResult)
    /\ parseResult' = parseResult
    /\ UNCHANGED <<format, outputArgs, outputResult, titleVars>>
    /\ last' = [op |-> "getLine"]
    /\ UNCHANGED <<vars_but_last, renameVars, undoVars, saveVars, loadVars>>

InitParse ==
    /\ StructFixed
    /\ RenameIdle
    /\ UndoIdle
    /\ SaveIdle
    /\ LoadIdle
    /\ parseText \in ParseInputs
    /\ parseResult = <<>>
    /\ format = DefaultFormat
    /\ outputArgs = NoOutputArgs
    /\ outputResult = <<>>
    /\ TitleIdle
    /\ last = [op |-> "init"]

NextParse == DoParseLine \/ DoGetLine

SpecParse == InitParse /\ [][NextParse]_<<vars, others>>

\* C16: a parsed line, turned into text as getTitleLine and getOutputLines do
\* and parsed again, is the same list of fields and texts.
C16_ParseTextParse ==
    last.op = "getLine" => ParseLine(parseText) = parseResult

\* a line with a field, a text with a blank in it and a field reference that
\* stays text has been parsed and turned into text
C16_Witness ==
    /\ last.op = "getLine"
    /\ \E k \in 1..Len(parseResult) : parseResult[k].isField
    /\ \E k \in 1..Len(parseResult) :
          /\ ~parseResult[k].isField
          /\ " " \in Range(parseResult[k].s)
    /\ \E k \in 1..Len(parseResult) :
          /\ ~parseResult[k].isField
          /\ MatchLen(parseResult[k].s, 1) > 0

\* ---- NodeFormat: output lines, bullets and tables ----
\* the text lines a format is given
LineTexts ==
    {<<"{", "*", "F", "*", "}">>,
     <<"h", ":", " ", "{", "*", "F", "*", "}">>,
     <<>>}

LineLists == SeqUpTo(LineTexts, MaxLines)

\* a text line stored where parsed lines are: the join gives the text back
TextLine(text) == IF text = <<>> THEN <<>> ELSE <<TextPart(text)>>

TextLines(texts) == [i \in 1..Len(texts) |-> TextLine(texts[i])]

ParseLines(texts) == [i \in 1..Len(texts) |-> ParseLine(texts[i])]

GetOutputLines(f, useOriginal) ==
    LET lines == IF useOriginal /\ f.origOutputLines # <<>>
                 THEN f.origOutputLines ELSE f.outputLines
    IN IF lines = <<>> THEN <<<<>>>>
       ELSE [i \in 1..Len(lines) |-> GetLine(lines[i])]

UpdateLineParsing(f) ==
    [f EXCEPT !.titleLine = ParseLine(GetLine(f.titleLine)),
              !.outputLines = ParseLines(GetOutputLines(f, FALSE)),
              !.origOutputLines = IF f.origOutputLines # <<>>
                                  THEN ParseLines(GetOutputLines(f, TRUE))
                                  ELSE <<>>]

\* lines[0] = '<li>' + lines[0]; lines[-1] += '</li>'
BulletLines(lines) ==
    IF lines = <<<<>>>> THEN lines
    ELSE [i \in 1..Len(lines) |->
             (IF i = 1 THEN <<"<li>">> ELSE <<>>) \o lines[i]
             \o (IF i = Len(lines) THEN <<"</li>">> ELSE <<>>)]

AddBullets(f) ==
    UpdateLineParsing(
        [f EXCEPT !.siblingPrefix = <<"<ul>">>,
                  !.siblingSuffix = <<"</ul>">>,
                  !.origOutputLines = f.outputLines,
                  !.outputLines = TextLines(BulletLines(GetOutputLines(f, TRUE)))])

\* str.strip()
RECURSIVE Strip(_)
Strip(text) ==
    IF text = <<>> THEN text
    ELSE IF Head(text) \in WhiteSpace THEN Strip(Tail(text))
    ELSE IF text[Len(text)] \in WhiteSpace THEN Strip(SubSeq(text, 1, Len(text) - 1))
    ELSE text

\* the heading and the rest of a line of a table: line.split(':', 1) when the
\* first part of the line is text with a colon
\* line.split(':', 1), given the place of the first colon
SplitAtColon(line, colon) ==
    [head |-> Strip(SubSeq(line, 1, colon - 1)),
     line |-> Strip(SubSeq(line, colon + 1, Len(line)))]

TableSplitWith(line, firstPart) ==
    IF ~firstPart.isField /\ ":" \in Range(firstPart.s)
    THEN SplitAtColon(line, CHOOSE i \in 1..Len(line) :
                                line[i] = ":" /\ \A j \in 1..(i - 1) : line[j] # ":")
    ELSE [head |-> <<>>, line |-> Strip(line)]

TableSplit(line) == TableSplitWith(line, ParseLine(line)[1])

\* addTables from line 415 on, given head and line of every line; raised is
\* the IndexError of newLines[0] when there is no line
TableRows(f, split) ==
    LET n == Len(split)
        heads == IF \E i \in 1..n : split[i].head # <<>>
                 THEN <<"<tr>">>
                      \o Concat([i \in 1..n |-> <<"<th>">> \o split[i].head \o <<"</th>">>])
                      \o <<"</tr>">>
                 ELSE <<>>
        newLines == [i \in 1..n |->
                        (IF i = 1 THEN <<"<tr>">> ELSE <<>>)
                        \o <<"<td>">> \o split[i].line \o <<"</td>">>
                        \o (IF i = n THEN <<"</tr>">> ELSE <<>>)]
        f1 == [f EXCEPT !.siblingPrefix = <<"<table>">> \o heads,
                        !.siblingSuffix = <<"</table>">>]
    IN IF n = 0 THEN [fmt |-> f1, raised |-> TRUE]
       ELSE [fmt |-> UpdateLineParsing(
                        [f1 EXCEPT !.origOutputLines = f.outputLines,
                                   !.outputLines = TextLines(newLines)]),
             raised |-> FALSE]

TableLines(f, lines) == TableRows(f, [i \in 1..Len(lines) |-> TableSplit(lines[i])])

AddTables(f) ==
    TableLines(f, SelectSeq(GetOutputLines(f, TRUE), LAMBDA l : l # <<>>))

ClearBulletsAndTables(f) ==
    LET f1 == [f EXCEPT !.siblingPrefix = <<>>, !.siblingSuffix = <<>>]
        f2 == IF f.origOutputLines # <<>>
              THEN UpdateLineParsing([f1 EXCEPT !.outputLines = f.origOutputLines])
              ELSE f1
    IN [f2 EXCEPT !.origOutputLines = <<>>]

\* the decorations of __init__ and changeOutputLines; snapshot says whether
\* the lines are stored as the baseline before each decoration
DecorateTables(b, snapshot) ==
    IF b.useTables
    THEN AddTables(IF snapshot THEN [b EXCEPT !.origOutputLines = b.outputLines]
                   ELSE b)
    ELSE [fmt |-> b, raised |-> FALSE]

Decorate(f, snapshot) ==
    DecorateTables(IF f.useBullets
                   THEN AddBullets(IF snapshot
                                   THEN [f EXCEPT !.origOutputLines = f.outputLines]
                                   ELSE f)
                   ELSE f,
                   snapshot)

\* the format data a format is made from
\* the title line the formats are given
TitleLineText == <<"{", "*", "F", "*", "}", " ", "{", "*", "G", "*", "}">>

FormatDatas ==
    [titleline : {TitleLineText}, outputlines : LineLists,
     bullets : BOOLEAN, tables : BOOLEAN]

\* NodeFormat(name, formatData)
NewFormat(formatData) ==
    Decorate(UpdateLineParsing(
                 [titleLine |-> TextLine(formatData.titleline),
                  outputLines |-> TextLines(formatData.outputlines),
                  origOutputLines |-> <<>>,
                  useBullets |-> formatData.bullets,
                  useTables |-> formatData.tables,
                  siblingPrefix |-> <<>>, siblingSuffix |-> <<>>]),
             FALSE)

ChangeOutputLines(f, lines, keepBlanks) ==
    Decorate([f EXCEPT !.outputLines =
                  SelectSeq(ParseLines(lines), LAMBDA l : keepBlanks \/ l # <<>>)],
             TRUE)

\* addOutputLine, given the parsed line
AppendLine(f, newLine) ==
    IF newLine # <<>> THEN [f EXCEPT !.outputLines = Append(@, newLine)] ELSE f

AddOutputLine(f, line) == AppendLine(f, ParseLine(line))

\* while field in self.titleLine: self.titleLine.remove(field)
RemoveFromLine(line, field) == SelectSeq(line, LAMBDA part : part # field)

RemoveField(f, field) ==
    [f EXCEPT !.titleLine = RemoveFromLine(@, field),
              !.outputLines =
                  SelectSeq([i \in 1..Len(@) |-> RemoveFromLine(@[i], field)],
                            LAMBDA l : l # <<>>)]

\* storeFormat(): the entries readFormat takes the lines and flags from
StoreFormat(f) ==
    [titleline |-> GetLine(f.titleLine), outputlines |-> GetOutputLines(f, TRUE),
     bullets |-> f.useBullets, tables |-> f.useTables]

CopySettings(f, sourceFormat) ==
    UpdateLineParsing(
        [titleLine |-> TextLine(StoreFormat(sourceFormat).titleline),
         outputLines |-> TextLines(GetOutputLines(sourceFormat, FALSE)),
         origOutputLines |-> TextLines(GetOutputLines(sourceFormat, TRUE)),
         useBullets |-> StoreFormat(sourceFormat).bullets,
         useTables |-> StoreFormat(sourceFormat).tables,
         siblingPrefix |-> sourceFormat.siblingPrefix,
         siblingSuffix |-> sourceFormat.siblingSuffix])

\* the formats that copySettings is given
SourceFormats ==
    {NewFormat([titleline |-> TitleLineText, outputlines |-> ls,
                bullets |-> b, tables |-> FALSE]).fmt :
        ls \in LineLists, b \in BOOLEAN}

\* the lines of the format are within the bounds
Bounded(f) ==
    /\ Len(f.outputLines) <= MaxLines
    /\ \A i \in 1..Len(f.outputLines) : Len(GetLine(f.outputLines[i])) <= MaxTextLen
    /\ Len(f.origOutputLines) <= MaxLines
    /\ \A i \in 1..Len(f.origOutputLines) :
          Len(GetLine(f.origOutputLines[i])) <= MaxTextLen
    /\ Len(f.siblingPrefix) <= MaxTextLen

FormatStep(op, r) ==
    /\ last.ops < MaxFormatOps
    /\ Bounded(r.fmt)
    /\ format' = r.fmt
    /\ last' = [op |-> op, raised |-> r.raised, ops |-> last.ops + 1]
    /\ UNCHANGED <<parseText, parseResult, outputArgs, outputResult, titleVars>>
    /\ UNCHANGED <<vars_but_last, renameVars, undoVars, saveVars, loadVars>>

NotRaised(f) == [fmt |-> f, raised |-> FALSE]

DoChangeOutputLines ==
    \E lines \in LineLists, keepBlanks \in BOOLEAN :
        FormatStep("changeOutputLines", ChangeOutputLines(format, lines, keepBlanks))

DoAddOutputLine ==
    \E line \in LineTexts :
        /\ Len(format.outputLines) < MaxLines
        /\ FormatStep("addOutputLine", NotRaised(AddOutputLine(format, line)))

DoRemoveField ==
    \E name \in FieldDictNames :
        FormatStep("removeField", NotRaised(RemoveField(format, FieldPart(name))))

DoAddBullets == FormatStep("addBullets", NotRaised(AddBullets(format)))

DoAddTables == FormatStep("addTables", AddTables(format))

DoClearBulletsAndTables ==
    FormatStep("clearBulletsAndTables", NotRaised(ClearBulletsAndTables(format)))

DoCopySettings ==
    \E sourceFormat \in SourceFormats :
        FormatStep("copySettings", NotRaised(CopySettings(format, sourceFormat)))

InitFormat ==
    /\ StructFixed
    /\ RenameIdle
    /\ UndoIdle
    /\ SaveIdle
    /\ LoadIdle
    /\ parseText = <<>>
    /\ parseResult = <<>>
    /\ outputArgs = NoOutputArgs
    /\ outputResult = <<>>
    /\ TitleIdle
    /\ format \in {r.fmt : r \in {c \in {NewFormat(fd) : fd \in FormatDatas} : ~c.raised}}
    /\ last = [op |-> "init", raised |-> FALSE, ops |-> 0]

NextFormat ==
    \/ DoChangeOutputLines
    \/ DoAddOutputLine
    \/ DoRemoveField
    \/ DoAddBullets
    \/ DoAddTables
    \/ DoClearBulletsAndTables
    \/ DoCopySettings

SpecFormat == InitFormat /\ [][NextFormat]_<<vars, others>>

\* no baseline is stored and no sibling markup is set
Undecorated(f) ==
    /\ f.origOutputLines = <<>>
    /\ f.siblingPrefix = <<>>
    /\ f.siblingSuffix = <<>>

\* two lists of output lines with the same lines, compared as text
SameLines(a, b) ==
    /\ Len(a) = Len(b)
    /\ \A i \in 1..Len(a) : GetLine(a[i]) = GetLine(b[i])

\* g has the output lines of lines and is undecorated
Restored(lines, g) ==
    /\ SameLines(g.outputLines, lines)
    /\ Undecorated(g)

\* the lines changeOutputLines(lines) stores
KeptLines(lines) == SelectSeq(ParseLines(lines), LAMBDA l : l # <<>>)

\* C17: for every list of output lines of an undecorated format, addBullets
\* and then clearBulletsAndTables, and addTables and then
\* clearBulletsAndTables, give the same output lines again, no sibling prefix
\* or suffix and no baseline.
C17_DecorateThenClearRestores ==
    Undecorated(format) =>
        /\ Restored(format.outputLines, ClearBulletsAndTables(AddBullets(format)))
        /\ ~AddTables(format).raised
        /\ Restored(format.outputLines, ClearBulletsAndTables(AddTables(format).fmt))

\* C18: a decoration applied twice, or both decorations applied one after the
\* other, at construction or in changeOutputLines, leave the undecorated lines
\* as the baseline: clearBulletsAndTables gives them back.
C18_DecorationTwiceKeepsBaseline ==
    /\ (Undecorated(format) /\ ~AddTables(format).raised) =>
           /\ Restored(format.outputLines,
                       ClearBulletsAndTables(AddBullets(AddBullets(format))))
           /\ Restored(format.outputLines,
                       ClearBulletsAndTables(AddTables(AddTables(format).fmt).fmt))
           /\ Restored(format.outputLines,
                       ClearBulletsAndTables(AddTables(AddBullets(format)).fmt))
    /\ \A fd \in FormatDatas :
           (fd.bullets /\ fd.tables /\ last.op = "init" /\ format = NewFormat(fd).fmt) =>
               Restored(ParseLines(fd.outputlines), ClearBulletsAndTables(format))
    /\ \A lines \in LineLists :
           LET r == ChangeOutputLines([format EXCEPT !.useBullets = TRUE,
                                                     !.useTables = TRUE],
                                      lines, FALSE)
           IN ~r.raised => Restored(KeptLines(lines), ClearBulletsAndTables(r.fmt))

\* C19: a baseline is stored only while bullets or tables are on, and
\* getOutputLines() gives the lines as they were last edited: the line that
\* addOutputLine added is its last line, and the lines that changeOutputLines
\* was given are its lines.
C19_BaselineFollowsEdits ==
    /\ format.origOutputLines # <<>> =>
           (format.useBullets \/ format.useTables \/ format.siblingPrefix # <<>>)
    /\ \A line \in LineTexts :
           ParseLine(line) # <<>> =>
               Last(GetOutputLines(AddOutputLine(format, line), TRUE))
                   = GetLine(ParseLine(line))
    /\ \A lines \in LineLists :
           LET r == ChangeOutputLines(format, lines, FALSE)
           IN (~r.raised /\ KeptLines(lines) # <<>>) =>
                  SameLines(TextLines(GetOutputLines(r.fmt, TRUE)), KeptLines(lines))

\* ---- NodeFormat.formatOutput ----
\* the texts a node stores for a field
DataTexts == {<<>>, <<"x">>}

\* field.outputText(node, plainText, formatHtml): the text the node stores
OutputText(field, nodeData) == nodeData[field.s]

\* the tag names that _endTagRe knows: br, BR, hr, HR
EndTagNames == {<<"b", "r">>, <<"B", "R">>, <<"h", "r">>, <<"H", "R">>}

\* xml.sax.saxutils.escape of one character
EscapeChar(c) ==
    IF c = "&" THEN <<"&", "a", "m", "p", ";">>
    ELSE IF c = "<" THEN <<"&", "l", "t", ";">>
    ELSE IF c = ">" THEN <<"&", "g", "t", ";">>
    ELSE <<c>>

\* xml.sax.saxutils.escape(part)
RECURSIVE Escape(_)
Escape(text) ==
    IF text = <<>> THEN <<>> ELSE EscapeChar(Head(text)) \o Escape(Tail(text))

\* fieldformat.removeMarkup(part): the text without its tags, a tag being the
\* characters from a < to the next >
RECURSIVE RemoveMarkup(_)
RemoveMarkup(text) ==
    IF text = <<>> THEN <<>>
    ELSE IF Head(text) = "<" /\ ">" \in Range(text)
    THEN RemoveMarkup(SubSeq(text, 1 + IndexOf(text, ">"), Len(text)))
    ELSE <<Head(text)>> \o RemoveMarkup(Tail(text))

\* a text part as formatOutput adds it to the line
LiteralText(part, plainText, formatHtml) ==
    IF ~formatHtml /\ ~plainText THEN Escape(part.s)
    ELSE IF formatHtml /\ plainText THEN RemoveMarkup(part.s)
    ELSE part.s

\* the line of the inner loop of formatOutput
RECURSIVE RenderLine(_, _, _, _)
RenderLine(lineData, nodeData, plainText, formatHtml) ==
    IF lineData = <<>> THEN <<>>
    ELSE (IF Head(lineData).isField THEN OutputText(Head(lineData), nodeData)
          ELSE LiteralText(Head(lineData), plainText, formatHtml))
         \o RenderLine(Tail(lineData), nodeData, plainText, formatHtml)

NumFullFields(lineData, nodeData) ==
    Cardinality({i \in 1..Len(lineData) :
                    lineData[i].isField /\ OutputText(lineData[i], nodeData) # <<>>})

NumEmptyFields(lineData, nodeData) ==
    Cardinality({i \in 1..Len(lineData) :
                    lineData[i].isField /\ OutputText(lineData[i], nodeData) = <<>>})

\* a test that keeps a line only for a field with text
KeepTestFullFieldOnly(keepBlanks, numFullFields, numEmptyFields) ==
    keepBlanks \/ numFullFields > 0

\* if keepBlanks or numFullFields or not numEmptyFields
KeepTest(keepBlanks, numFullFields, numEmptyFields) ==
    keepBlanks \/ numFullFields > 0 \/ numEmptyFields = 0

\* group 1 of _endTagRe for a line whose last < is at position p: < , one of
\* the tag names, blanks and slashes, and > as the last character
EndTagFrom(line, p) ==
    IF /\ p + 3 <= Len(line)
       /\ SubSeq(line, p + 1, p + 2) \in EndTagNames
       /\ \A i \in (p + 3)..(Len(line) - 1) : line[i] \in {" ", "/"}
       /\ line[Len(line)] = ">"
    THEN SubSeq(line, p, Len(line))
    ELSE <<>>

\* _endTagRe.match(line) and its group 1: the tag a line ends with; the tag has
\* no < but its first character, so it starts at the last < of the line
EndTag(line) ==
    IF "<" \notin Range(line) THEN <<>>
    ELSE EndTagFrom(line, CHOOSE p \in 1..Len(line) :
                              /\ line[p] = "<"
                              /\ \A i \in (p + 1)..Len(line) : line[i] # "<")

\* the outer loop of formatOutput
RECURSIVE FormatOutputLoop(_, _, _)
FormatOutputLoop(args, lines, result) ==
    IF lines = <<>> THEN result
    ELSE
        LET lineData == Head(lines)
            line == RenderLine(lineData, args.data, args.plainText, args.formatHtml)
            next ==
                IF KeepTest(args.keepBlanks, NumFullFields(lineData, args.data),
                            NumEmptyFields(lineData, args.data))
                THEN Append(result, line)
                ELSE IF args.formatHtml /\ ~args.plainText /\ result # <<>>
                THEN [result EXCEPT ![Len(result)] = @ \o EndTag(line)]
                ELSE result
        IN FormatOutputLoop(args, Tail(lines), next)

FormatOutput(args) == FormatOutputLoop(args, args.outputLines, <<>>)

\* the output lines of the formats that are rendered
OutputTemplates ==
    {<<"{", "*", "F", "*", "}", ",", " ", "{", "*", "G", "*", "}">>,
     <<"{", "*", "G", "*", "}", "<", "b", "r", "/", ">">>,
     <<"h", "<", "h", "r", "/", ">">>,
     <<"{", "*", "F", "*", "}">>,
     <<"{", "*", "G", "*", "}", "<", "H", "R", " ", "/", ">">>,
     <<"{", "*", "G", "*", "}", "<", "B", "r", ">">>}

OutputArgs ==
    [outputLines : {ParseLines(ls) : ls \in SeqUpTo(OutputTemplates, MaxOutputLines)},
     data : [FieldDictNames -> DataTexts],
     plainText : BOOLEAN, keepBlanks : BOOLEAN, formatHtml : BOOLEAN]

DoFormatOutput ==
    /\ last.op = "init"
    /\ outputResult' = FormatOutput(outputArgs)
    /\ last' = [op |-> "formatOutput"]
    /\ UNCHANGED <<parseText, parseResult, format, outputArgs, titleVars>>
    /\ UNCHANGED <<vars_but_last, renameVars, undoVars, saveVars, loadVars>>

InitOutput ==
    /\ StructFixed
    /\ RenameIdle
    /\ UndoIdle
    /\ SaveIdle
    /\ LoadIdle
    /\ parseText = <<>>
    /\ parseResult = <<>>
    /\ format = DefaultFormat
    /\ outputArgs \in OutputArgs
    /\ outputResult = <<>>
    /\ TitleIdle
    /\ last = [op |-> "init"]

NextOutput == DoFormatOutput

SpecOutput == InitOutput /\ [][NextOutput]_<<vars, others>>

\* the template line is one that the claim says is returned
Kept(args, i) ==
    \/ args.keepBlanks
    \/ \E k \in 1..Len(args.outputLines[i]) :
          /\ args.outputLines[i][k].isField
          /\ args.data[args.outputLines[i][k].s] # <<>>
    \/ \A k \in 1..Len(args.outputLines[i]) : ~args.outputLines[i][k].isField

\* the numbers of the template lines that are returned, in rising order
KeptIndices(args) ==
    LET kept == {i \in 1..Len(args.outputLines) : Kept(args, i)}
    IN [j \in 1..Cardinality(kept) |->
           CHOOSE i \in kept : Cardinality({h \in kept : h < i}) = j - 1]

Rendered(args, i) ==
    RenderLine(args.outputLines[i], args.data, args.plainText, args.formatHtml)

\* the end tags of the omitted lines from line from to line to
RECURSIVE CarriedTags(_, _, _)
CarriedTags(args, from, to) ==
    IF from > to THEN <<>>
    ELSE EndTag(Rendered(args, from)) \o CarriedTags(args, from + 1, to)

\* C20 as stated: formatOutput returns, in template order, exactly the
\* rendered lines of the template lines for which keepBlanks is true, or a
\* field rendered non-empty, or that have no field.
C20_ReturnsExactlyTheKeptLines ==
    last.op = "formatOutput" =>
        LET idx == KeptIndices(outputArgs)
        IN /\ Len(outputResult) = Len(idx)
           /\ \A j \in 1..Len(idx) : outputResult[j] = Rendered(outputArgs, idx[j])

\* C20 amended: formatOutput returns one line for each such template line, in
\* template order: the rendered line, and after it, when formatHtml is set and
\* plainText is not, the break tags that end the omitted lines between it and
\* the next returned line.
C20_KeptLinesWithCarriedEndTags ==
    last.op = "formatOutput" =>
        LET idx == KeptIndices(outputArgs)
            n == Len(idx)
        IN /\ Len(outputResult) = n
           /\ \A j \in 1..n :
                 outputResult[j] =
                     Rendered(outputArgs, idx[j])
                     \o (IF outputArgs.formatHtml /\ ~outputArgs.plainText
                         THEN CarriedTags(outputArgs, idx[j] + 1,
                                          IF j < n THEN idx[j + 1] - 1
                                          ELSE Len(outputArgs.outputLines))
                         ELSE <<>>)

\* a line of text only was returned, a line with fields that are all empty
\* was omitted, and the break tag it ends with is on the line before it
C20_Witness ==
    /\ last.op = "formatOutput"
    /\ outputArgs.formatHtml /\ ~outputArgs.plainText /\ ~outputArgs.keepBlanks
    /\ Len(outputArgs.outputLines) = 2
    /\ Len(outputResult) = 1
    /\ \A k \in 1..Len(outputArgs.outputLines[1]) : ~outputArgs.outputLines[1][k].isField
    /\ outputResult[1] = Rendered(outputArgs, 1) \o <<"<", "b", "r", "/", ">">>

\* ---- formatOutput: the break tag of an omitted line ----
\* the names of the line-break and horizontal-rule tags in any letter case
BreakTagNames ==
    {<<b, r>> : b \in {"b", "B", "h", "H"}, r \in {"r", "R"}}

\* the line-break or horizontal-rule tag that the text ends with, in any
\* letter case, self-closing or not; none if it does not end with one
TrailingBreakTag(line) ==
    IF \E p \in 1..(Len(line) - 3) :
           /\ line[p] = "<"
           /\ SubSeq(line, p + 1, p + 2) \in BreakTagNames
           /\ \A i \in (p + 3)..(Len(line) - 1) : line[i] \in {" ", "/"}
           /\ line[Len(line)] = ">"
    THEN SubSeq(line,
                CHOOSE p \in 1..(Len(line) - 3) :
                    /\ line[p] = "<"
                    /\ SubSeq(line, p + 1, p + 2) \in BreakTagNames
                    /\ \A i \in (p + 3)..(Len(line) - 1) : line[i] \in {" ", "/"},
                Len(line))
    ELSE <<>>

\* the trailing break tags of the template lines from line from to line to
RECURSIVE TrailingBreakTags(_, _, _)
TrailingBreakTags(args, from, to) ==
    IF from > to THEN <<>>
    ELSE TrailingBreakTag(Rendered(args, from)) \o TrailingBreakTags(args, from + 1, to)

\* text ends with the text tail
EndsWith(text, tail) ==
    /\ Len(tail) <= Len(text)
    /\ SubSeq(text, Len(text) - Len(tail) + 1, Len(text)) = tail

\* C21: with formatHtml set and plainText not, the line-break or
\* horizontal-rule tag (in any letter case, self-closing or not) that ends an
\* omitted line is appended to the line returned last before it: that line
\* ends with the tags of the omitted lines from this one up to the next
\* returned line.
C21_DroppedBreakTagIsCarried ==
    (last.op = "formatOutput" /\ outputArgs.formatHtml /\ ~outputArgs.plainText) =>
        LET idx == KeptIndices(outputArgs)
            n == Len(idx)
        IN \A j \in 1..n :
              \A i \in (idx[j] + 1)..(IF j < n THEN idx[j + 1] - 1
                                       ELSE Len(outputArgs.outputLines)) :
                 /\ TrailingBreakTag(Rendered(outputArgs, i)) # <<>>
                    => Len(outputResult[j]) > Len(Rendered(outputArgs, idx[j]))
                 /\ EndsWith(outputResult[j],
                             TrailingBreakTags(outputArgs, i,
                                               IF j < n THEN idx[j + 1] - 1
                                               ELSE Len(outputArgs.outputLines)))

\* ---- NodeFormat.extractTitleData and formatTitle ----
\* the characters of a title
TitleChars == {"A", "1", " ", "!", "\n"}

Titles == SeqUpTo(TitleChars, MaxTitleLen)

\* the characters that a strict field takes from a title
Digits == {"1"}

\* the title lines: parsed texts, and the title line '{*F*} {*G*}' after both
\* fields were removed from it
TitleLines ==
    {ParseLine(t) :
        t \in {<<"{", "*", "F", "*", "}", " ", "{", "*", "G", "*", "}">>,
               <<"{", "*", "F", "*", "}", "!", "{", "*", "G", "*", "}">>,
               <<"{", "*", "F", "*", "}", "!">>,
               <<"{", "*", "F", "*", "}">>,
               <<"{", "*", "F", "*", "}", " ", "{", "*", "F", "*", "}">>,
               <<"!">>}}
    \cup {RemoveFromLine(RemoveFromLine(
              ParseLine(<<"{", "*", "F", "*", "}", " ", "{", "*", "G", "*", "}">>),
              FieldPart(<<"F">>)), FieldPart(<<"G">>))}

\* the texts the node stores for the fields before the call
TitleDatas ==
    {[n \in FieldDictNames |-> <<"o">>],
     [n \in FieldDictNames |-> <<>>],
     [n \in FieldDictNames |->
         IF n = <<"F">> THEN <<"o", " ", "\n", "p">> ELSE <<"\n", " ">>]}

TitleArgs ==
    [titleLine : TitleLines, title : Titles, data : TitleDatas,
     strictFields : SUBSET FieldDictNames]

\* field.storedTextFromTitle(text): the text to store, or ValueError (ok is
\* FALSE) when a strict field is given a text that is not all digits
StoredTextFromTitle(field, text, strictFields) ==
    IF field.s \in strictFields /\ \E i \in 1..Len(text) : text[i] \notin Digits
    THEN [ok |-> FALSE, text |-> <<>>]
    ELSE [ok |-> TRUE, text |-> text]

NoMatch == [matched |-> FALSE, groups |-> <<>>]

MaxOf(S) == CHOOSE x \in S : \A y \in S : y <= x

\* re.match(pattern, titleString) from position pos on, for the pattern of the
\* segments segs: '(.*)' for a field, the escaped text for a text; the match
\* need not reach the end of the title, and a group takes the most characters
\* other than newline that let the rest match
RECURSIVE MatchGroups(_, _, _)
\* the group of the first segment takes k characters
GroupOf(segs, title, pos, k) ==
    [matched |-> TRUE,
     groups |-> <<SubSeq(title, pos, pos + k - 1)>>
                \o MatchGroups(Tail(segs), title, pos + k).groups]

\* ks are the lengths of the first group with which the rest matches
GreedyGroup(segs, title, pos, ks) ==
    IF ks = {} THEN NoMatch ELSE GroupOf(segs, title, pos, MaxOf(ks))

\* the first segment is the text lit
LiteralMatch(segs, title, pos, lit) ==
    IF /\ pos + Len(lit) - 1 <= Len(title)
       /\ SubSeq(title, pos, pos + Len(lit) - 1) = lit
    THEN MatchGroups(Tail(segs), title, pos + Len(lit))
    ELSE NoMatch

MatchGroups(segs, title, pos) ==
    IF segs = <<>> THEN [matched |-> TRUE, groups |-> <<>>]
    ELSE IF Head(segs).isField
    THEN GreedyGroup(segs, title, pos,
                     {k \in 0..RunLen(title, pos, TitleChars \ {"\n"}) :
                         MatchGroups(Tail(segs), title, pos + k).matched})
    ELSE LiteralMatch(segs, title, pos, Head(segs).s)

\* what extractTitleData returns and leaves in data; raised is an exception
\* that it does not catch
TitleOutcome(ok, raised, nodeData) ==
    [op |-> "extractTitleData", ok |-> ok, raised |-> raised, data |-> nodeData,
     text |-> <<>>]

\* lines 374-376: the groups are stored field by field; a ValueError ends it
RECURSIVE AssignGroups(_, _, _, _)
AssignStored(fields, groups, nodeData, strictFields, stored) ==
    IF ~stored.ok THEN TitleOutcome(FALSE, FALSE, nodeData)
    ELSE AssignGroups(Tail(fields), Tail(groups),
                      [nodeData EXCEPT ![Head(fields).s] = stored.text], strictFields)

AssignGroups(fields, groups, nodeData, strictFields) ==
    IF fields = <<>> THEN TitleOutcome(TRUE, FALSE, nodeData)
    ELSE AssignStored(fields, groups, nodeData, strictFields,
                      StoredTextFromTitle(Head(fields), Head(groups), strictFields))

\* lines 381-382: for field in fields: data[field.name] = ''
RECURSIVE BlankFields(_, _)
BlankFields(fields, nodeData) ==
    IF fields = <<>> THEN nodeData
    ELSE BlankFields(Tail(fields), [nodeData EXCEPT ![Head(fields).s] = <<>>])

\* lines 379-382, given the stored text of the title for the first field
AssignFirstStored(fields, nodeData, stored) ==
    IF ~stored.ok THEN TitleOutcome(FALSE, FALSE, nodeData)
    ELSE TitleOutcome(TRUE, FALSE,
             BlankFields(Tail(fields),
                         [nodeData EXCEPT ![Head(fields).s] = stored.text]))

\* lines 377-382: fields[0] of an empty list raises IndexError
AssignFirst(fields, title, nodeData, strictFields) ==
    IF fields = <<>> THEN TitleOutcome(FALSE, TRUE, nodeData)
    ELSE AssignFirstStored(fields, nodeData,
                           StoredTextFromTitle(fields[1], title, strictFields))

\* extractTitleData without lines 377-382: no match is a failure
ExtractWithoutFallback(args, fields, extraText, match) ==
    IF match.matched
    THEN AssignGroups(fields, match.groups, args.data, args.strictFields)
    ELSE TitleOutcome(FALSE, FALSE, args.data)

\* lines 371-387, given fields, extraText and the match
ExtractWith(args, fields, extraText, match) ==
    IF match.matched
    THEN AssignGroups(fields, match.groups, args.data, args.strictFields)
    ELSE IF Strip(extraText) = <<>>
    THEN AssignFirst(fields, args.title, args.data, args.strictFields)
    ELSE TitleOutcome(FALSE, FALSE, args.data)

\* the texts of the text segments, one after the other
ExtraText(titleLine) ==
    Concat([i \in 1..Len(titleLine) |->
               IF titleLine[i].isField THEN <<>> ELSE titleLine[i].s])

ExtractTitleData(args) ==
    ExtractWith(args,
                SelectSeq(args.titleLine, LAMBDA seg : seg.isField),
                ExtraText(args.titleLine),
                MatchGroups(args.titleLine, args.title, 1))

\* the text as it is, with all its lines
AllLines(text) == text

\* line.strip().split('\n', 1)[0]
FirstLine(text) ==
    IF "\n" \in Range(text) THEN SubSeq(text, 1, IndexOf(text, "\n") - 1) ELSE text

\* the join of formatTitle: a field gives its output text, a text is taken
\* as it is
RECURSIVE TitleText(_, _)
TitleText(titleLine, nodeData) ==
    IF titleLine = <<>> THEN <<>>
    ELSE (IF Head(titleLine).isField THEN OutputText(Head(titleLine), nodeData)
          ELSE Head(titleLine).s)
         \o TitleText(Tail(titleLine), nodeData)

FormatTitle(args) == FirstLine(Strip(TitleText(args.titleLine, args.data)))

DoExtractTitleData ==
    /\ last.op = "init"
    /\ titleResult' = ExtractTitleData(titleArgs)
    /\ last' = [op |-> "extractTitleData"]
    /\ UNCHANGED <<parseText, parseResult, format, outputArgs, outputResult, titleArgs>>
    /\ UNCHANGED <<vars_but_last, renameVars, undoVars, saveVars, loadVars>>

DoFormatTitle ==
    /\ last.op = "init"
    /\ titleResult' = [op |-> "formatTitle", ok |-> TRUE, raised |-> FALSE,
                       data |-> titleArgs.data, text |-> FormatTitle(titleArgs)]
    /\ last' = [op |-> "formatTitle"]
    /\ UNCHANGED <<parseText, parseResult, format, outputArgs, outputResult, titleArgs>>
    /\ UNCHANGED <<vars_but_last, renameVars, undoVars, saveVars, loadVars>>

InitTitle ==
    /\ StructFixed
    /\ RenameIdle
    /\ UndoIdle
    /\ SaveIdle
    /\ LoadIdle
    /\ parseText = <<>>
    /\ parseResult = <<>>
    /\ format = DefaultFormat
    /\ outputArgs = NoOutputArgs
    /\ outputResult = <<>>
    /\ titleArgs \in TitleArgs
    /\ titleResult = NoTitleResult
    /\ last = [op |-> "init"]

NextTitle == DoExtractTitleData \/ DoFormatTitle

SpecTitle == InitTitle /\ [][NextTitle]_<<vars, others>>

\* the text holds the text part as a run of characters
Contains(text, part) ==
    \E i \in 1..(Len(text) - Len(part) + 1) : SubSeq(text, i, i + Len(part) - 1) = part

\* a title line of two fields with a text between them
TwoFieldsWithSeparator(titleLine) ==
    /\ Len(titleLine) = 3
    /\ titleLine[1].isField
    /\ ~titleLine[2].isField
    /\ titleLine[3].isField

\* extractTitleData returned False and left the data as it was
FailedWithoutChange ==
    /\ ~titleResult.ok
    /\ ~titleResult.raised
    /\ titleResult.data = titleArgs.data

\* C22 as stated: with a title line of two fields and a text between them,
\* extractTitleData on a title without that text returns False and assigns no
\* field.
C22_NoSeparatorFails ==
    (/\ last.op = "extractTitleData"
     /\ TwoFieldsWithSeparator(titleArgs.titleLine)
     /\ ~Contains(titleArgs.title, titleArgs.titleLine[2].s))
        => FailedWithoutChange

\* C22 amended: it does so when the text between the fields is not all
\* whitespace. When it is whitespace, as in '{*F*} {*G*}', the title goes to
\* the first field and the empty text to the second, and the result is True,
\* unless the first field rejects the title.
C22_NoSeparatorFailsUnlessBlank ==
    (/\ last.op = "extractTitleData"
     /\ TwoFieldsWithSeparator(titleArgs.titleLine)
     /\ ~Contains(titleArgs.title, titleArgs.titleLine[2].s))
        => IF Strip(titleArgs.titleLine[2].s) # <<>> THEN FailedWithoutChange
           ELSE IF ~StoredTextFromTitle(titleArgs.titleLine[1], titleArgs.title,
                                         titleArgs.strictFields).ok
           THEN FailedWithoutChange
           ELSE /\ titleResult.ok
                /\ titleResult.data[titleArgs.titleLine[3].s] = <<>>
                /\ titleArgs.titleLine[1] # titleArgs.titleLine[3]
                       => titleResult.data[titleArgs.titleLine[1].s] = titleArgs.title
                /\ \A n \in FieldDictNames :
                       n \notin {titleArgs.titleLine[1].s, titleArgs.titleLine[3].s}
                          => titleResult.data[n] = titleArgs.data[n]

\* the title line '{*F*} {*G*}' was given a title without a blank: the call
\* returned True with the title in F and the empty text in G
C22_Witness ==
    /\ last.op = "extractTitleData"
    /\ titleArgs.titleLine = <<FieldPart(<<"F">>), TextPart(<<" ">>), FieldPart(<<"G">>)>>
    /\ titleArgs.title = <<"A", "1">>
    /\ titleResult.ok
    /\ titleResult.data[<<"F">>] = <<"A", "1">>
    /\ titleResult.data[<<"G">>] = <<>>

\* the fields of a title line, in their order
TitleFields(titleLine) == SelectSeq(titleLine, LAMBDA seg : seg.isField)

\* C23: when the title does not match the pattern of the title line and the
\* texts of the title line are all whitespace, extractTitleData returns True,
\* the first field of the title line has the whole title and every other
\* field of the title line has the empty text.
C23_FallbackStoresTitleInFirstField ==
    (/\ last.op = "extractTitleData"
     /\ ~MatchGroups(titleArgs.titleLine, titleArgs.title, 1).matched
     /\ Strip(ExtraText(titleArgs.titleLine)) = <<>>)
        => /\ titleResult.ok
           /\ TitleFields(titleArgs.titleLine) # <<>>
           /\ \A i \in 1..Len(TitleFields(titleArgs.titleLine)) :
                 LET name == TitleFields(titleArgs.titleLine)[i].s
                     first == TitleFields(titleArgs.titleLine)[1].s
                 IN titleResult.data[name] =
                        IF name = first THEN titleArgs.title ELSE <<>>

\* C24: when extractTitleData returns True after a match of the pattern, the
\* texts of the title line joined with the texts stored for its fields, in
\* the order of the title line, are the title.
C24_MatchCoversTheWholeTitle ==
    (/\ last.op = "extractTitleData"
     /\ titleResult.ok
     /\ MatchGroups(titleArgs.titleLine, titleArgs.title, 1).matched)
        => TitleText(titleArgs.titleLine, titleResult.data) = titleArgs.title

\* C25: whenever extractTitleData returns False, the data is as it was
\* before the call.
C25_FailureLeavesDataAlone ==
    (/\ last.op = "extractTitleData"
     /\ ~titleResult.ok
     /\ ~titleResult.raised)
        => titleResult.data = titleArgs.data

\* ---- parseLine: what becomes a field ----
\* C26: parseLine gives a field only for '{*name*}' with a name of the field
\* table and no modifier, and gives every such reference as a field; all
\* other text, references with an unknown name or with a modifier too, stays
\* text with its characters as they were: the parts joined again are the
\* text, with its whitespace joined to single blanks.
C26_FieldOnlyForKnownNameWithoutModifier ==
    last.op = "parseLine" =>
        /\ GetLine(parseResult) = JoinSplit(parseText, <<>>, FALSE)
        /\ \A k \in 1..Len(parseResult) :
              IF parseResult[k].isField
              THEN parseResult[k].s \in FieldDictNames
              ELSE /\ parseResult[k].s # <<>>
                   /\ \A name \in FieldDictNames :
                          ~Contains(parseResult[k].s, SepName(name))

\* a line with a field of the field table, a reference with a modifier and a
\* reference with an unknown name has been parsed: one field, and both
\* references are in the text parts
C26_Witness ==
    /\ last.op = "parseLine"
    /\ \E k \in 1..Len(parseResult) : parseResult[k].isField
    /\ \E k \in 1..Len(parseResult) :
          /\ ~parseResult[k].isField
          /\ parseResult[k].s = <<"{", "*", "&", "G", "*", "}">>
    /\ \E k \in 1..Len(parseResult) :
          /\ ~parseResult[k].isField
          /\ parseResult[k].s = <<"{", "*", "H", "*", "}">>

\* ---- removeField and changeOutputLines ----
\* the field is a part of one of the lines
InLines(field, lines) ==
    \E i \in 1..Len(lines) : \E k \in 1..Len(lines[i]) : lines[i][k] = field

\* the field's reference is in one of the text lines
InTexts(field, texts) ==
    \E i \in 1..Len(texts) : Contains(texts[i], SepName(field.s))

\* C27: after removeField(f) the field f is in no title line and in no
\* output line of the format: not in the output lines, not in the lines that
\* getOutputLines() and storeFormat() return, and not in the lines that
\* clearBulletsAndTables restores; and no output line is left without parts.
C27_RemovedFieldIsInNoLine ==
    \A name \in FieldDictNames :
        LET field == FieldPart(name)
            g == RemoveField(format, field)
        IN /\ ~InLines(field, <<g.titleLine>>)
           /\ ~InLines(field, g.outputLines)
           /\ \A i \in 1..Len(g.outputLines) : g.outputLines[i] # <<>>
           /\ ~InTexts(field, GetOutputLines(g, TRUE))
           /\ ~InTexts(field, StoreFormat(g).outputlines)
           /\ ~InLines(field, ClearBulletsAndTables(g).outputLines)

\* the lines as changeOutputLines compiles them
CompiledLines(lines, keepBlanks) ==
    SelectSeq(ParseLines(lines), LAMBDA l : keepBlanks \/ l # <<>>)

\* a format with the flags of f and the given lines, without decoration
Plain(f, lines) ==
    [f EXCEPT !.outputLines = lines, !.origOutputLines = <<>>,
              !.siblingPrefix = <<>>, !.siblingSuffix = <<>>]

\* changeOutputLines gave r for the compiled lines: without bullets and
\* tables the output lines are the compiled lines; with one of them or both
\* the baseline is the compiled lines, and with one of them the output lines
\* are the decoration of the compiled lines
ChangedTo(f, compiled, r) ==
    /\ ~r.raised
    /\ (~f.useBullets /\ ~f.useTables) => r.fmt.outputLines = compiled
    /\ (f.useBullets \/ f.useTables) => r.fmt.origOutputLines = compiled
    /\ (f.useBullets /\ ~f.useTables) =>
           r.fmt.outputLines = AddBullets(Plain(f, compiled)).outputLines
    /\ (f.useTables /\ ~f.useBullets) =>
           r.fmt.outputLines = AddTables(Plain(f, compiled)).fmt.outputLines

\* C28: changeOutputLines(lines, keepBlanks) makes the compiled lines, in
\* their order and without the lines that have no part unless keepBlanks is
\* true, the output lines; with bullets or tables or both, the baseline is
\* then these compiled lines and the output lines are their decoration, for
\* every list of lines, the empty list too.
C28_ChangeOutputLinesSetsLinesAndBaseline ==
    \A lines \in LineLists, keepBlanks \in BOOLEAN :
        ChangedTo(format, CompiledLines(lines, keepBlanks),
                  ChangeOutputLines(format, lines, keepBlanks))

\* ---- formatTitle ----
\* C29 as stated: the title that formatTitle returns has no newline and
\* neither starts nor ends with whitespace.
C29_TitleIsOneStrippedLine ==
    last.op = "formatTitle" =>
        /\ "\n" \notin Range(titleResult.text)
        /\ titleResult.text # <<>> =>
               /\ Head(titleResult.text) \notin WhiteSpace
               /\ Last(titleResult.text) \notin WhiteSpace

\* C29 amended: the title that formatTitle returns is the rendering of the
\* title line without the whitespace at its ends, up to its first newline:
\* it has no newline and does not start with whitespace; whitespace before
\* that newline stays at its end.
C29_TitleIsFirstLineOfStrippedText ==
    last.op = "formatTitle" =>
        LET whole == Strip(TitleText(titleArgs.titleLine, titleArgs.data))
            n == Len(titleResult.text)
        IN /\ "\n" \notin Range(titleResult.text)
           /\ n > 0 => Head(titleResult.text) \notin WhiteSpace
           /\ n <= Len(whole)
           /\ titleResult.text = SubSeq(whole, 1, n)
           /\ n < Len(whole) => whole[n + 1] = "\n"

\* the rendering has a blank before its first newline: the title ends with
\* the blank
C29_Witness ==
    /\ last.op = "formatTitle"
    /\ "\n" \in Range(Strip(TitleText(titleArgs.titleLine, titleArgs.data)))
    /\ titleResult.text = <<"o", " ">>

\* ---- TreeStructure(topNodes=...) ----
\* node.generateSpots(parentSpot): a spot for the node under the parent spot,
\* and spots under it for all its children
RECURSIVE GenerateSpots(_, _, _, _), GenerateChildSpots(_, _, _, _)
GenerateSpots(sr, cl, n, parentSpot) ==
    GenerateChildSpots([sr EXCEPT ![n] = @ \cup {Append(parentSpot, n)}],
                       cl, Append(parentSpot, n), cl[n])

GenerateChildSpots(sr, cl, spot, s) ==
    IF s = <<>> THEN sr
    ELSE GenerateChildSpots(GenerateSpots(sr, cl, Head(s), spot), cl, spot, Tail(s))

\* a generateSpots that is given the top node
SpotsForTopNode(sr, cl, topNode, gen) == GenerateSpots(sr, cl, topNode, <<>>)

\* lines 71-72: after the inner loop, node is the last node that
\* topNode.descendantGen() gave
SpotsForLoopNode(sr, cl, topNode, gen) == GenerateSpots(sr, cl, Last(gen), <<>>)

\* lines 67-72 for one top node, given its descendantGen()
BuildTopNode(st, cl, ids, topNode, gen, addSpots) ==
    [nodeDict |-> StructNodeDict(st.nodeDict, ids, gen),
     spotRefs |-> IF addSpots THEN SpotsForLoopNode(st.spotRefs, cl, topNode, gen)
                  ELSE st.spotRefs]

\* lines 67-72: the loop over topNodes
RECURSIVE BuildLoop(_, _, _, _, _)
BuildLoop(st, cl, ids, topNodes, addSpots) ==
    IF topNodes = <<>> THEN st
    ELSE BuildLoop(BuildTopNode(st, cl, ids, Head(topNodes),
                                DescendantGen(cl, Head(topNodes)), addSpots),
                   cl, ids, Tail(topNodes), addSpots)

\* the child lists of the nodes a structure is built from: no node is its
\* own descendant
BuildChildLists ==
    {cl \in [Nodes -> SeqUpTo(Nodes, 2)] :
        \A n \in Nodes : \A i \in 1..Len(cl[n]) : cl[n][i] > n}

\* TreeStructure(topNodes=topNodes, addSpots=addSpots)
Build ==
    \E topNodes \in SeqUpTo(Nodes, MaxSrc), addSpots \in BOOLEAN :
        LET st == BuildLoop([nodeDict |-> nodeDict, spotRefs |-> spotRefs],
                            childList, uId, topNodes, addSpots)
        IN /\ last.op = "init"
           /\ structChildList' = topNodes
           /\ nodeDict' = st.nodeDict
           /\ spotRefs' = st.spotRefs
           /\ last' = [op |-> "build", addSpots |-> addSpots]
           /\ UNCHANGED <<uId, data, childList, nextUid, purged, others>>

\* nodes without spots and no structure yet
InitBuild ==
    /\ uId = [n \in Nodes |-> n]
    /\ data = [n \in Nodes |-> 0]
    /\ childList \in BuildChildLists
    /\ spotRefs = [n \in Nodes |-> {}]
    /\ structChildList = <<>>
    /\ nodeDict = [u \in UIds |-> None]
    /\ nextUid = MaxNodes + 1
    /\ purged = {}
    /\ last = [op |-> "init"]
    /\ OthersIdle

NextBuild == Build

SpecBuild == InitBuild /\ [][NextBuild]_<<vars, others>>

\* C30: a structure built from top nodes with addSpots true has every
\* descendant of every top node in nodeDict, every top node has a spot
\* without parent, and every node reachable from the top-level list has a
\* spot.
C30_BuiltStructureHasSpots ==
    (last.op = "build" /\ last.addSpots) =>
        /\ \A n \in Reachable : nodeDict[uId[n]] = n
        /\ \A n \in Range(structChildList) : <<n>> \in spotRefs[n]
        /\ \A n \in Reachable : spotRefs[n] # {}

\* ---- the commands of the controller ----
\* the control, its structure and its undo lists as a command works on them
ControlVars ==
    [nd |-> nodeDict, cl |-> childList, top |-> structChildList, sr |-> spotRefs,
     formatRef |-> formatRef, typeFieldNames |-> typeFieldNames,
     undoList |-> undoList, redoList |-> redoList, next |-> nextRec,
     modified |-> modified, fileSaveEnabled |-> fileSaveEnabled,
     imported |-> imported, filePathObj |-> filePathObj, disk |-> disk,
     failed |-> FALSE, raised |-> FALSE]

\* an undo object is made: it holds what it was given, goes on the undo list
\* and the redo list is emptied
AddUndo(st, kind, value) ==
    [st EXCEPT !.undoList = AddUndoObj(@, [id |-> st.next, kind |-> kind,
                                           value |-> value]),
               !.redoList = <<>>,
               !.next = @ + 1]

\* undo.ChildListUndo(undoList, nodes): the child lists of the nodes
ChildListUndo(st, parents) ==
    AddUndo(st, "childList", [p \in parents |-> ParentList(st.cl, st.top, p)])

\* undo.TypeUndo(undoList, nodes): the type names of the nodes
TypeUndo(st, nodes) ==
    AddUndo(st, "type", [n \in Range(nodes) |-> st.formatRef[n]])

\* undo.FormatUndo(undoList, treeFormats, configDialogFormats)
FormatUndo(st) == AddUndo(st, "format", st.typeFieldNames)

\* updateAll(setModified)
UpdateAll(st, setModified) == IF setModified THEN SetModified(st, TRUE) ELSE st

\* the loop of deleteNodeSpot, given the lists without the node
DeleteLoopIn(st, node, cl, top) ==
    LET r == DeleteLoop([nd |-> st.nd, sr |-> st.sr], DescendantGen(cl, node), cl, top)
    IN [st EXCEPT !.nd = r.nd, !.cl = cl, !.top = top, !.sr = r.sr]

\* structure.deleteNodeSpot(spot) as one step of a command; list.remove
\* raises ValueError when the parent does not list the node
DeleteNodeSpotIn(st, spot) ==
    LET node == Last(spot)
        parentNode == IF Len(spot) > 1 THEN spot[Len(spot) - 1] ELSE Self
    IN IF node \notin Range(ParentList(st.cl, st.top, parentNode))
       THEN [st EXCEPT !.raised = TRUE]
       ELSE IF parentNode = Self
       THEN DeleteLoopIn(st, node, st.cl, ChildListRemove(st.top, node))
       ELSE DeleteLoopIn(st, node,
                         [st.cl EXCEPT ![parentNode] = ChildListRemove(@, node)],
                         st.top)

\* for spot in selSpots: self.structure.deleteNodeSpot(spot)
RECURSIVE DeleteSpots(_, _)
DeleteSpots(st, selSpots) ==
    IF selSpots = <<>> \/ st.raised THEN st
    ELSE DeleteSpots(DeleteNodeSpotIn(st, Head(selSpots)), Tail(selSpots))

\* selectSpots and updateAll at the end of nodeDelete, not reached after an
\* exception
SelectAndUpdate(st) == IF st.raised THEN st ELSE UpdateAll(st, TRUE)

\* spot.nextSiblingSpot() and spot.prevSiblingSpot(): the spot beside this one
\* under the same parent spot, <<>> when there is none
SiblingSpot(st, spot, offset) ==
    LET list == IF Len(spot) > 1 THEN st.cl[spot[Len(spot) - 1]] ELSE st.top
        row == IndexOf(list, Last(spot)) + offset
    IN IF row \in 1..Len(list) THEN Append(ParentSpot(spot), list[row]) ELSE <<>>

\* the spots nodeDelete can select afterwards; structSpot says whether the
\* top-level spots have a spot of the structure as their parent spot
NextSel(st, selSpots, structSpot) ==
    {c \in UNION {{SiblingSpot(st, selSpots[i], 1), SiblingSpot(st, selSpots[i], -1),
                   ParentSpot(selSpots[i])} : i \in 1..Len(selSpots)} :
        /\ c # <<>>
        /\ structSpot \/ Len(c) > 1
        /\ c \notin Range(selSpots)}

\* {spot.parentSpot.nodeRef for spot in selSpots}
UndoParents(selSpots) ==
    {IF Len(selSpots[i]) > 1 THEN selSpots[i][Len(selSpots[i]) - 1] ELSE Self :
        i \in 1..Len(selSpots)}

\* nodeDelete with the undo object made after the spots are deleted
NodeDeleteUndoLast(st, selSpots, structSpot) ==
    IF selSpots = <<>> THEN st
    ELSE IF NextSel(st, selSpots, structSpot) = {}
            \/ (~structSpot /\ \E i \in 1..Len(selSpots) : Len(selSpots[i]) = 1)
    THEN [st EXCEPT !.raised = TRUE]
    ELSE SelectAndUpdate(ChildListUndo(DeleteSpots(st, selSpots),
                                       UndoParents(selSpots)))

\* nodeDelete; IndexError when no spot is left to select, AttributeError for
\* a spot without parent spot
NodeDelete(st, selSpots, structSpot) ==
    IF selSpots = <<>> THEN st
    ELSE IF NextSel(st, selSpots, structSpot) = {}
            \/ (~structSpot /\ \E i \in 1..Len(selSpots) : Len(selSpots[i]) = 1)
    THEN [st EXCEPT !.raised = TRUE]
    ELSE SelectAndUpdate(DeleteSpots(ChildListUndo(st, UndoParents(selSpots)),
                                     selSpots))

\* node.changeDataType(format) for node in nodes
RECURSIVE ChangeDataTypes(_, _, _)
ChangeDataTypes(st, nodes, newType) ==
    IF nodes = <<>> THEN st
    ELSE ChangeDataTypes([st EXCEPT !.formatRef[Head(nodes)] = newType],
                         Tail(nodes), newType)

\* the body of "if nodes:" in dataSetType
SetTypes(st, nodes, newType) ==
    IF nodes # <<>> THEN ChangeDataTypes(TypeUndo(st, nodes), nodes, newType) ELSE st

\* dataSetType; selNodes is selectedNodes()
DataSetType(st, selNodes, newType) ==
    UpdateAll(SetTypes(st, SelectSeq(selNodes, LAMBDA n : st.formatRef[n] # newType),
                       newType),
              TRUE)

SetControlVars(st) ==
    /\ nodeDict' = st.nd
    /\ childList' = st.cl
    /\ structChildList' = st.top
    /\ spotRefs' = st.sr
    /\ formatRef' = st.formatRef
    /\ undoList' = st.undoList
    /\ redoList' = st.redoList
    /\ nextRec' = st.next
    /\ modified' = st.modified
    /\ fileSaveEnabled' = st.fileSaveEnabled
    /\ imported' = st.imported
    /\ filePathObj' = st.filePathObj
    /\ disk' = st.disk

\* what a command leaves alone
ControlFrame ==
    UNCHANGED <<uId, data, nextUid, purged, dataDict, typeFieldNames, fieldRenameDict,
                doc, applied, loadVars, formatVars>>

\* lists without repetition
NoRepeat(s) == \A i, j \in 1..Len(s) : i # j => s[i] # s[j]


DoNodeDelete ==
    \E selSpots \in {s \in SeqUpTo(AllSpots, MaxSel) : NoRepeat(s)}, structSpot \in BOOLEAN :
        /\ nextRec <= MaxCommands
        /\ SetControlVars(NodeDelete(ControlVars, selSpots, structSpot))
        /\ last' = [op |-> "nodeDelete",
                    raised |-> NodeDelete(ControlVars, selSpots, structSpot).raised,
                    selSpots |-> selSpots]
        /\ ControlFrame

DoDataSetType ==
    \E selNodes \in {s \in SeqUpTo(DictNodes(nodeDict), MaxSel) : NoRepeat(s)},
       newType \in TypeNames :
        /\ nextRec <= MaxCommands
        /\ SetControlVars(DataSetType(ControlVars, selNodes, newType))
        /\ last' = [op |-> "dataSetType", raised |-> FALSE, selNodes |-> selNodes,
                    newType |-> newType]
        /\ ControlFrame

\* applyConfigDialogFormats(addUndo=True)
DoApplyConfigDialogFormats ==
    /\ nextRec <= MaxCommands
    /\ \E t \in TypeNames : fieldRenameDict[t] # <<>>
    /\ undoList' = FormatUndo(ControlVars).undoList
    /\ redoList' = FormatUndo(ControlVars).redoList
    /\ nextRec' = FormatUndo(ControlVars).next
    /\ ConfigFormatsApplied
    /\ last' = [op |-> "applyFormats", raised |-> FALSE]
    /\ UNCHANGED <<vars_but_last, doc, applied, saveVars, loadVars, formatVars>>

\* a field of type 1 is renamed in the config dialog
OneRename == [t \in TypeNames |-> IF t = 1 THEN <<<<1, MaxFields>>>> ELSE <<>>]

\* a control for a structure with spots for all its nodes; the config dialog
\* is open
InitControl ==
    /\ uId = [n \in Nodes |-> n]
    /\ data = [n \in Nodes |-> 0]
    /\ childList \in BuildChildLists
    /\ structChildList \in {<<1>>, <<1, 2>>}
    /\ spotRefs = [n \in Nodes |-> {spot \in AllSpots : Last(spot) = n}]
    /\ nodeDict = [u \in UIds |-> IF u \in Reachable THEN u ELSE None]
    /\ nextUid = MaxNodes + 1
    /\ purged = {}
    /\ dataDict = [n \in Nodes |-> [f \in FieldNames |-> None]]
    /\ formatRef = [n \in Nodes |-> FormatOf(n)]
    /\ typeFieldNames = [t \in TypeNames |-> 1..MaxOrigFields]
    /\ fieldRenameDict = OneRename
    /\ UndoIdle
    /\ modified = FALSE
    /\ fileSaveEnabled = FALSE
    /\ imported \in BOOLEAN
    /\ filePathObj = None
    /\ disk = [f \in Paths \X BOOLEAN |-> None]
    /\ LoadIdle
    /\ FormatIdle
    /\ last = [op |-> "init", raised |-> FALSE]

NextControl == DoNodeDelete \/ DoDataSetType \/ DoApplyConfigDialogFormats

SpecControl == InitControl /\ [][NextControl]_<<vars, others>>

\* the newest undo record
NewRecord == Last(undoList')

\* C31: nodeDelete, dataSetType and applyConfigDialogFormats (addUndo true)
\* make their undo record from the state before the change: the record holds
\* the child lists, node types or formats as they were before the command's
\* first mutation, for everything the command changes, and one command makes
\* at most one undo record.
C31_UndoRecordHoldsStateBefore ==
    [][/\ nextRec' <= nextRec + 1
       /\ (last'.op = "nodeDelete" /\ ~last'.raised /\ last'.selSpots # <<>>) =>
              /\ nextRec' = nextRec + 1
              /\ <<childList', structChildList'>> # <<childList, structChildList>>
       /\ (last'.op = "nodeDelete"
             /\ <<childList', structChildList'>> # <<childList, structChildList>>) =>
              /\ nextRec' = nextRec + 1
              /\ NewRecord.id = nextRec
              /\ NewRecord.kind = "childList"
              /\ \A p \in Nodes \cup {Self} :
                     ParentList(childList', structChildList', p)
                             # ParentList(childList, structChildList, p)
                         => /\ p \in DOMAIN NewRecord.value
                            /\ NewRecord.value[p]
                                   = ParentList(childList, structChildList, p)
       /\ (last'.op = "dataSetType" /\ formatRef' # formatRef) =>
              /\ nextRec' = nextRec + 1
              /\ NewRecord.id = nextRec
              /\ NewRecord.kind = "type"
              /\ \A n \in Nodes : formatRef'[n] # formatRef[n] =>
                     /\ n \in DOMAIN NewRecord.value
                     /\ NewRecord.value[n] = formatRef[n]
       /\ last'.op = "applyFormats" =>
              /\ nextRec' = nextRec + 1
              /\ NewRecord.id = nextRec
              /\ NewRecord.kind = "format"
              /\ NewRecord.value = typeFieldNames
              /\ typeFieldNames' # typeFieldNames]_<<vars, others>>

\* two spots have been deleted by one nodeDelete, under two parents
C31_Witness ==
    /\ last.op = "nodeDelete"
    /\ ~last.raised
    /\ Len(last.selSpots) = 2
    /\ undoList # <<>>
    /\ Last(undoList).kind = "childList"
    /\ Cardinality(DOMAIN Last(undoList).value) = 2

\* C35: dataSetType changes the type of exactly the selected nodes whose type
\* differs from the chosen one; when no selected node differs, no undo record
\* is made, no node changes and the modified flag stays as it was.
C35_DataSetTypeChangesOnlyDiffering ==
    [][last'.op = "dataSetType" =>
           /\ \A n \in Nodes :
                  formatRef'[n] = IF n \in Range(last'.selNodes) THEN last'.newType
                                  ELSE formatRef[n]
           /\ (\A n \in Range(last'.selNodes) : formatRef[n] = last'.newType) =>
                  /\ UNCHANGED <<undoList, redoList, nextRec>>
                  /\ UNCHANGED <<vars_but_last, renameVars>>
                  /\ modified' = modified]_<<vars, others>>

\* ---- the file commands of the controller ----
\* updateTree(setModified)
UpdateTree(st, setModified) == IF setModified THEN SetModified(st, TRUE) ELSE st

\* updateTreeNode(node, setModified)
UpdateTreeNode(st, setModified) == IF setModified THEN SetModified(st, TRUE) ELSE st

\* checkSaveChanges that answers by whether the document is still modified
CheckSaveChangesBySaved(st, numWindows, ans, newPath, result) ==
    IF ~st.modified \/ numWindows > 1 THEN [st |-> st, ret |-> TRUE]
    ELSE IF ans = "Save"
    THEN [st |-> FileSave(st, FALSE, newPath, result),
          ret |-> ~FileSave(st, FALSE, newPath, result).modified]
    ELSE [st |-> st, ret |-> ans # "Cancel"]

\* checkSaveChanges; numWindows is len(windowList), ans the button of the
\* message box, newPath and result what the file dialog and the write do
CheckSaveChanges(st, numWindows, ans, newPath, result) ==
    IF ~st.modified \/ numWindows > 1 THEN [st |-> st, ret |-> TRUE]
    ELSE IF ans = "Save"
    THEN [st |-> FileSave(st, FALSE, newPath, result), ret |-> TRUE]
    ELSE IF ans = "Cancel"
    THEN [st |-> st, ret |-> FALSE]
    ELSE [st |-> st, ret |-> TRUE]

\* the paths the file dialog gives in the file commands
NewPaths == {None, 1}

Answers == {"Save", "Discard", "Cancel"}

DoSetModified ==
    \E newModified \in BOOLEAN :
        /\ SetControlVars(SetModified(ControlVars, newModified))
        /\ last' = [op |-> "setModified", raised |-> FALSE]
        /\ ControlFrame

DoUpdate ==
    \E setModified \in BOOLEAN, method \in {"updateTree", "updateAll", "updateTreeNode"} :
        /\ SetControlVars(IF method = "updateAll" THEN UpdateAll(ControlVars, setModified)
                          ELSE IF method = "updateTree"
                          THEN UpdateTree(ControlVars, setModified)
                          ELSE UpdateTreeNode(ControlVars, setModified))
        /\ last' = [op |-> method, raised |-> FALSE]
        /\ ControlFrame

DoFileSave == SaveWith(NewPaths)

DoFileSaveAs ==
    \E newPath \in NewPaths, result \in WriteResults :
        /\ SetControlVars(FileSaveAs(ControlVars, newPath, result))
        /\ last' = [op |-> "fileSaveAs", raised |-> FALSE, newPath |-> newPath,
                    failed |-> FileSaveAs(ControlVars, newPath, result).failed]
        /\ ControlFrame

DoCheckSaveChanges ==
    \E numWindows \in 1..MaxWindows, ans \in Answers, newPath \in NewPaths,
       result \in WriteResults :
        /\ SetControlVars(CheckSaveChanges(ControlVars, numWindows, ans, newPath, result).st)
        /\ last' = [op |-> "checkSaveChanges", raised |-> FALSE,
                    numWindows |-> numWindows,
                    ans |-> IF modified /\ numWindows <= 1 THEN ans ELSE "none",
                    ret |-> CheckSaveChanges(ControlVars, numWindows, ans, newPath,
                                             result).ret]
        /\ ControlFrame

\* editPaste in the tree view: pasteNodes gives whether nodes were added; it
\* adds a node of the clipboard under a selected node
DoEditPaste ==
    \/ /\ UNCHANGED <<vars_but_last, others>>
       /\ last' = [op |-> "editPaste", raised |-> FALSE, pasted |-> FALSE]
    \/ \E node \in Nodes \ DictNodes(nodeDict), parent \in DictNodes(nodeDict) :
           LET r == AddNodesFromStruct(TopNodesStruct(childList, uId, <<node>>), parent, -1)
           IN /\ childList[node] = <<>>
              /\ spotRefs[node] = {}
              /\ ~r.raised
              /\ SetControlVars(UpdateAll([ControlVars EXCEPT !.nd = r.nd, !.cl = r.cl,
                                                              !.top = r.top, !.sr = r.sr],
                                          TRUE))
              /\ last' = [op |-> "editPaste", raised |-> FALSE, pasted |-> TRUE]
              /\ ControlFrame

\* a control for a new document, for a file or for an imported structure
InitFile ==
    /\ StructFixed
    /\ RenameIdle
    /\ UndoIdle
    /\ modified = FALSE
    /\ fileSaveEnabled = FALSE
    /\ imported \in BOOLEAN
    /\ filePathObj \in Paths \cup {None}
    /\ disk = [f \in Paths \X BOOLEAN |-> None]
    /\ LoadIdle
    /\ FormatIdle
    /\ last = [op |-> "init", raised |-> FALSE]

NextFile ==
    \/ DoSetModified
    \/ DoUpdate
    \/ DoFileSave
    \/ DoFileSaveAs
    \/ DoCheckSaveChanges
    \/ DoEditPaste
    \/ DoNodeDelete
    \/ DoDataSetType

SpecFile == InitFile /\ [][NextFile]_<<vars, others>>

\* C32: checkSaveChanges returns True exactly when the document is not
\* modified or more than one window is open, or the user chose Discard, or the
\* user chose Save and the document was saved; it returns False on Cancel.
C32_TrueOnlyWhenSavedOrDiscarded ==
    [][last'.op = "checkSaveChanges" =>
           /\ last'.ret = (\/ ~modified
                           \/ last'.numWindows > 1
                           \/ last'.ans = "Discard"
                           \/ last'.ans = "Save" /\ ~modified')
           /\ last'.ans = "Cancel" => ~last'.ret]_<<vars, others>>

\* C33: a fileSaveAs that is cancelled in the dialog or whose write fails
\* leaves filePathObj, modified and imported as they were; one that succeeds
\* sets filePathObj to the chosen path, modified to False and imported to
\* False.
C33_SaveAsRestoresOrCommits ==
    [][last'.op = "fileSaveAs" =>
           IF last'.newPath = None \/ last'.failed
           THEN UNCHANGED <<filePathObj, modified, imported>>
           ELSE /\ filePathObj' = last'.newPath
                /\ ~modified'
                /\ ~imported']_<<vars, others>>

\* the write to a new path has failed for a modified, imported document that
\* has another path
C33_Witness ==
    /\ last.op = "fileSaveAs"
    /\ last.failed
    /\ last.newPath # None
    /\ filePathObj \notin {None, last.newPath}
    /\ modified
    /\ imported

\* C34: after every operation of the controller (construction, setModified,
\* updateTree, updateAll, updateTreeNode, fileSave and fileSaveAs in every
\* outcome, nodeDelete, paste, dataSetType) the FileSave action is enabled
\* exactly when the document's modified flag is true.
C34_FileSaveEnabledIffModified == fileSaveEnabled = modified

\* a modified document has been saved under a new path, and FileSave is
\* disabled again
C34_Witness ==
    /\ last.op = "fileSaveAs"
    /\ ~last.failed
    /\ last.newPath # None
    /\ filePathObj = last.newPath
    /\ ~modified
    /\ ~fileSaveEnabled
    /\ nodeDict[MaxNodes] # None

\* ---- copySettings: name, fields and settings ----
\* _defaultOutputSeparator
DefaultOutputSeparator == ", "

\* a dict entry that is there only under a condition
Entry(present, entry) == IF present THEN entry ELSE [k \in {} |-> FALSE]

\* dict.get(key, default)
Get(formatData, key, default) ==
    IF key \in DOMAIN formatData THEN formatData[key] ELSE default

\* storeFormat(): the entries besides the lines, bullets and tables
StoreSettings(f) ==
    [formatname |-> f.name, fields |-> f.fields]
        @@ Entry(~f.spaceBetween, [spacebetween |-> FALSE])
        @@ Entry(f.formatHtml, [formathtml |-> TRUE])
        @@ Entry(f.childType # "", [childtype |-> f.childType])
        @@ Entry(f.iconName # "", [icon |-> f.iconName])

\* readFormat(formatData): the attributes besides the lines, bullets and tables
ReadSettings(formatData) ==
    [fields |-> Get(formatData, "fields", <<>>),
     spaceBetween |-> Get(formatData, "spacebetween", TRUE),
     formatHtml |-> Get(formatData, "formathtml", FALSE),
     childType |-> Get(formatData, "childtype", ""),
     iconName |-> Get(formatData, "icon", ""),
     outputSeparator |-> Get(formatData, "outputsep", DefaultOutputSeparator)]

\* copySettings with all attributes of the formats
CopyAllSettings(f, sourceFormat) ==
    CopySettings(f, sourceFormat)
        @@ [name |-> sourceFormat.name]
        @@ ReadSettings(StoreSettings(sourceFormat))

\* the names, fields and settings a format can have been read with
FormatSettings ==
    [name : {"A", "B"}, fields : {<<>>, <<"F", "G">>},
     spaceBetween : BOOLEAN, formatHtml : BOOLEAN,
     childType : {"", "A"}, iconName : {"", "book"},
     outputSeparator : {DefaultOutputSeparator, "; "}]

\* the formats copySettings is given, with their fields
CopySources ==
    {f @@ settings : f \in SourceFormats,
                     settings \in {c \in FormatSettings : c.fields # <<>>}}

\* NodeFormat(name), and a format read from format data
CopyTargets ==
    {DefaultFormat @@ [name |-> "B"] @@ ReadSettings([k \in {} |-> FALSE]),
     NewFormat([titleline |-> TitleLineText, outputlines |-> <<>>,
                bullets |-> TRUE, tables |-> FALSE]).fmt
         @@ [name |-> "A"]
         @@ ReadSettings([fields |-> <<"F", "G">>, spacebetween |-> FALSE,
                          formathtml |-> TRUE, icon |-> "book", outputsep |-> "; "])}

DoCopyAllSettings ==
    \E sourceFormat \in CopySources :
        /\ last.op = "init"
        /\ format' = CopyAllSettings(format, sourceFormat)
        /\ last' = [op |-> "copySettings", source |-> sourceFormat]
        /\ UNCHANGED <<parseText, parseResult, outputArgs, outputResult, titleVars>>
        /\ UNCHANGED <<vars_but_last, renameVars, undoVars, saveVars, loadVars>>

InitCopy ==
    /\ StructFixed
    /\ RenameIdle
    /\ UndoIdle
    /\ SaveIdle
    /\ LoadIdle
    /\ parseText = <<>>
    /\ parseResult = <<>>
    /\ outputArgs = NoOutputArgs
    /\ outputResult = <<>>
    /\ TitleIdle
    /\ format \in CopyTargets
    /\ last = [op |-> "init"]

NextCopy == DoCopyAllSettings

SpecCopy == InitCopy /\ [][NextCopy]_<<vars, others>>

\* the attributes of the claim that are not lines
SameSettings(f, g, keys) == \A k \in keys : f[k] = g[k]

\* C36: after copySettings(source) this format has the source's name, field
\* table, title line, output lines, presentation flags (spaceBetween,
\* formatHtml, useBullets, useTables), childType, iconName, outputSeparator
\* and sibling prefix and suffix.
C36_CopySettingsCopiesEverything ==
    last.op = "copySettings" =>
        /\ SameSettings(format, last.source,
                        {"name", "fields", "spaceBetween", "formatHtml", "useBullets",
                         "useTables", "childType", "iconName", "outputSeparator",
                         "siblingPrefix", "siblingSuffix"})
        /\ GetLine(format.titleLine) = GetLine(last.source.titleLine)
        /\ GetOutputLines(format, FALSE) = GetOutputLines(last.source, FALSE)
        /\ GetOutputLines(format, TRUE) = GetOutputLines(last.source, TRUE)
====
